---- MODULE Spec2Model ----
(***************************************************************************)
(* Federated event ingestion of the homeserver: the auth-chain resolver    *)
(* fetch_and_handle_outliers, the bad-event backoff registry it shares,    *)
(* and the outlier store it fills through the event admitter.              *)
(***************************************************************************)
EXTENDS Integers, Sequences, FiniteSets, TLC

----------------------------------------------------------------------------
(* Bounds of the model *)

\* event ids are 1..NumIds
NumIds == 3
\* longest list of requested ids handed to one call
MaxReq == 2
\* calls of fetch_and_handle_outliers in one behaviour
MaxCalls == 3
\* the clock advances TickSecs seconds at a time, at most MaxTicks times
TickSecs == 240
MaxTicks == 3
\* the registry on its own: waits in one behaviour, and how often a window's
\* minimum is doubled to make a wait
MaxWaits == 2
MaxDoublings == 9
\* the tries counter is a u32 and saturates at u32::MAX; the model keeps the
\* saturating arithmetic and narrows the counter so that it saturates here
TriesMax == 12
\* resolver tasks sharing the registry, and the worklist entries each works off
NumTasks == 2
MaxAttempts == 2
\* canonical objects put into the outlier store directly: their fields are
\* 1..NumFields and their values 0..NumValues-1
NumFields == 2
NumValues == 2
\* send_leave: the rooms 1..NumRooms and the servers 1..NumServers
NumRooms == 2
NumServers == 2
\* server_keys: the signing keys 1..NumKeys
NumKeys == 2
\* power levels: the user ids 1..NumPlUsers, the entries of a "users" object,
\* and the integer fields present in a content without "users"
NumPlUsers == 3
MaxUsersLen == 3
MaxPresent == 2
\* users service: the local users 1..NumLocalUsers, the login tokens that are
\* generated, the login requests running side by side, and the ticks of the
\* clock they see
NumLocalUsers == 2
NumLoginTokens == 2
NumLoginTasks == 2
MaxLoginTicks == 2
\* the device ids 1..NumDevices of a user, and the access tokens generated
NumDevices == 2
MaxTokens == 4
\* proxy: the labels of a domain, and the rules of an include or exclude list
MaxLabels == 3
MaxRules == 2
\* send_leave: the requests handled side by side
NumLeaveTasks == 2
\* watchers: the bytes and the longest key, the watch and the wake calls
NumBytes == 2
MaxKeyLen == 2
NumWatchTasks == 2
NumWakeTasks == 2

----------------------------------------------------------------------------
(* Program constants *)

\* fetch loop: const MIN_DURATION: u64 = 60 * 2; MAX_DURATION = 60 * 60 * 8
FETCH_MIN_DURATION == 60 * 2
FETCH_MAX_DURATION == 60 * 60 * 8
\* validation loop: MIN_DURATION = 5 * 60; MAX_DURATION = 60 * 60 * 24
VALIDATE_MIN_DURATION == 5 * 60
VALIDATE_MAX_DURATION == 60 * 60 * 24

----------------------------------------------------------------------------
(* Values *)

Ids == 1 .. NumIds
\* the ids whose events the server does not hold when it starts
RemoteIds == { 1, 2 }
\* an auth_events entry that does not parse as an event id
BadId == 0

\* Option<T>: None is the empty sequence, Some(v) is <<v>>
None == << >>
Some(v) == << v >>
IsSome(o) == o # << >>
Unwrap(o) == o[1]

Min(a, b) == IF a < b THEN a ELSE b

Range(s) == { s[x] : x \in DOMAIN s }

RECURSIVE Reverse(_)
Reverse(s) == IF s = << >> THEN << >> ELSE Append(Reverse(Tail(s)), Head(s))

\* SelectIds that takes no auth event: the chain is not followed
SelectIdsNone(s) == << >>

RECURSIVE SelectIds(_)
\* the entries of an auth_events array that parse as event ids, in order
SelectIds(s) ==
  IF s = << >> THEN << >>
  ELSE IF Head(s) \in Ids THEN << Head(s) >> \o SelectIds(Tail(s))
       ELSE SelectIds(Tail(s))

\* The events an origin can serve, by content hash.  auth_events is
\* Some(array) or None (field missing or not an array).
ServedByDefault ==
  [ c \in Ids |-> CASE c = 1 -> Some(<< 2, 3 >>)
                   [] c = 2 -> Some(<< 3, BadId >>)
                   [] OTHER -> None ]

\* An origin whose events refer to each other in a cycle
ServedCycle ==
  [ c \in Ids |-> CASE c = 1 -> Some(<< 2 >>)
                   [] c = 2 -> Some(<< 1 >>)
                   [] OTHER -> None ]

\* An origin whose events refer to themselves and repeat ids
ServedRepeats ==
  [ c \in Ids |-> CASE c = 1 -> Some(<< 1, 2, 2 >>)
                   [] c = 2 -> Some(<< 2, 1, 1 >>)
                   [] OTHER -> None ]

Origins == { ServedByDefault, ServedCycle, ServedRepeats }

\* the PduEvent built from a canonical object under event id `id`
PduEvent(id, value) == [ event_id |-> id, content |-> value.calculated_event_id ]

----------------------------------------------------------------------------
VARIABLES
  timeline,      \* ids of the events in the main timeline
  outliers,      \* eventid_outlierpdu: event id -> canonical object
  ratelimiter,   \* bad_event_ratelimiter: event id -> [time, tries]
  now,           \* the monotonic clock, in seconds
  ticks,         \* how often the clock has advanced
  pc,            \* position of the resolver task
  events,        \* the requested ids of the running call
  room_version,  \* whether get_room_version_id(create_event) is Ok
  i,             \* index of the requested id the first loop is at
  todo,          \* todo_auth_events
  rev,           \* events_in_reverse_order
  seen,          \* events_all
  ewa,           \* events_with_auth_events
  j,             \* index of the entry the second loop is at
  order,         \* the entry's fetched events in validation order
  k,             \* index into order
  pdus,          \* the value being built and returned
  calls,         \* calls started so far
  netlog,        \* federation requests of the running call
  handled,       \* events of the running call the second loop dealt with
  failures,      \* per id: failures recorded so far and time of the last
  rwlock,        \* the RwLock of bad_event_ratelimiter: who holds it, and how
  tpc,           \* per resolver task: the statement it is at
  attempts,      \* per resolver task: worklist entries it is through with
  task_entry,    \* per resolver task: the registry entry back_off has found
  last_put,      \* per event id: the object of the last add_pdu_outlier
  got,           \* the last get_outlier_pdu_json: its id and what it returned
  leave_req,     \* send_leave: the request and what the services answer
  leave_result,  \* send_leave: what create_leave_event did, once it has run
  verify_req,    \* server_keys: the pdu to validate and the state of the keys
  verify_result, \* server_keys: what the validation did, once it has run
  pl_req,        \* power levels: the content, the room version, a user id
  pl_result,     \* power levels: what the parsers returned, once they have run
  logintoken_expiresatuserid, \* login token -> (expires_at, user_id)
  login_tasks,   \* per login request: where find_from_login_token is at
  login_now,     \* millis_since_unix_epoch, as the login requests see it
  login_issued,  \* login tokens created so far
  userdeviceid_metadata, \* the (user, device) pairs that have metadata
  userdeviceid_token,    \* (user, device) -> access token
  token_userdeviceid,    \* access token -> (user, device)
  tokens_issued, \* access tokens generated so far
  current_token, \* per (user, device): the token the last login gave it
  proxy_req,     \* proxy: the rules of one proxy and the domain of a url
  proxy_result,  \* proxy: what for_url returned, once it has run
  mutex_federation, \* send_leave: per room, the request that holds its mutex
  leave_tasks,   \* send_leave: per request that passed the checks, where it is
  watchers,      \* Watchers: prefix -> the channel of its (tx, rx) entry
  channels,      \* the watch channels made so far: version, and senders dropped
  watch_tasks,   \* per watch call: its prefix and receiver, and where it is
  wake_tasks,    \* per wake call: its key, what it has triggered, where it is
  send_failed,   \* a send in wake has returned Err
  origin_events  \* the events the origin serves: content hash -> auth_events

vars == << timeline, outliers, ratelimiter, now, ticks, pc, events, room_version, i,
           todo, rev, seen, ewa, j, order, k, pdus, calls, netlog, handled,
           failures, rwlock, tpc, attempts, task_entry, last_put, got, leave_req,
           leave_result, verify_req, verify_result, pl_req, pl_result,
           logintoken_expiresatuserid, login_tasks, login_now, login_issued,
           userdeviceid_metadata, userdeviceid_token, token_userdeviceid,
           tokens_issued, current_token, proxy_req, proxy_result,
           mutex_federation, leave_tasks, watchers, channels, watch_tasks,
           wake_tasks, send_failed, origin_events >>

stores == << timeline, outliers >>
clock == << now, ticks >>
call == << events, room_version >>
loop1 == << i, todo, rev, seen, ewa >>
loop2 == << j, order, k, pdus >>

\* the resolver tasks that share the registry
Tasks == 1 .. NumTasks
tasks == << rwlock, tpc, attempts, task_entry >>
\* the state outside the call of the resolver that is followed step by step
outlier_calls == << last_put, got >>
leave_calls == << leave_req, leave_result >>
verify_calls == << verify_req, verify_result >>
power_calls == << pl_req, pl_result >>
login_calls == << logintoken_expiresatuserid, login_tasks, login_now, login_issued >>
device_calls == << userdeviceid_metadata, userdeviceid_token, token_userdeviceid,
                  tokens_issued, current_token >>
proxy_calls == << proxy_req, proxy_result >>
mutex_calls == << mutex_federation, leave_tasks >>
watch_calls == << watchers, channels, watch_tasks, wake_tasks, send_failed >>
\* the services beside the event handler
services == << power_calls, login_calls, device_calls, proxy_calls, mutex_calls,
              watch_calls >>
\* the remote server the events are fetched from
origin == << origin_events >>
elsewhere == << tasks, outlier_calls, leave_calls, verify_calls, services, origin >>
\* the state beside each of these
beside_tasks == << outlier_calls, leave_calls, verify_calls, services, origin >>
beside_outlier == << tasks, leave_calls, verify_calls, services, origin >>
beside_leave == << tasks, outlier_calls, verify_calls, services, origin >>
beside_verify == << tasks, outlier_calls, leave_calls, services, origin >>
handler == << tasks, outlier_calls, leave_calls, verify_calls >>
beside_power == << handler, login_calls, device_calls, proxy_calls, mutex_calls,
                  watch_calls, origin >>
beside_login == << handler, power_calls, device_calls, proxy_calls, mutex_calls,
                  watch_calls, origin >>
beside_device == << handler, power_calls, login_calls, proxy_calls, mutex_calls,
                  watch_calls, origin >>
beside_proxy == << handler, power_calls, login_calls, device_calls, mutex_calls,
                  watch_calls, origin >>
beside_mutex == << handler, power_calls, login_calls, device_calls, proxy_calls,
                  watch_calls, origin >>
\* the state of that call
beside_watch == << handler, power_calls, login_calls, device_calls, proxy_calls,
                  mutex_calls, origin >>
resolution == << stores, pc, call, loop1, loop2, calls, netlog, handled >>

\* the auth_events of the event whose content hashes to c
AuthEventsOf(c) == origin_events[c]

\* gen_event_id_canonical_json: the canonical object of the event whose
\* content hashes to c, with the id calculated from it
GenEventIdCanonicalJson(c) ==
  [ calculated_event_id |-> c, auth_events |-> AuthEventsOf(c) ]

----------------------------------------------------------------------------
(* Local stores (timeline service) *)

\* Json(pdu): the object written out, as its set of (key, value) members
Json(obj) == { << key, obj[key] >> : key \in DOMAIN obj }

\* deserialized(): the object read back from its members
Deserialized(bytes) ==
  [ key \in { m[1] : m \in bytes } |-> (CHOOSE m \in bytes : m[1] = key)[2] ]

\* outlier.get_outlier_pdu_json
GetOutlierPduJson(id) ==
  IF id \in DOMAIN outliers THEN Some(Deserialized(outliers[id])) ELSE None

\* timeline.get_pdu: the main timeline first, then the outlier store
GetPdu(id) ==
  IF id \in timeline THEN Some(PduEvent(id, GenEventIdCanonicalJson(id)))
  ELSE IF id \in DOMAIN outliers THEN Some(PduEvent(id, Deserialized(outliers[id])))
  ELSE None

\* timeline.pdu_exists
PduExists(id) == id \in timeline \/ id \in DOMAIN outliers

\* add_pdu_outlier that keeps the members of the stored object which the new
\* object does not have
AddPduOutlierMerging(store, id, value) ==
  [ x \in DOMAIN store \cup { id } |->
      IF x # id THEN store[x]
      ELSE IF id \in DOMAIN store
           THEN Json(value) \cup { m \in store[id] : m[1] \notin DOMAIN value }
           ELSE Json(value) ]

\* outlier.add_pdu_outlier: raw_put(event_id, Json(pdu)), overwriting
AddPduOutlier(store, id, value) ==
  [ x \in DOMAIN store \cup { id } |-> IF x = id THEN Json(value) ELSE store[x] ]

----------------------------------------------------------------------------
(* Bad-event backoff registry *)

RECURSIVE DoubledCapped(_, _, _)
\* min(max, min * 2^tries), without computing 2^tries
DoubledCapped(min, max, tries) ==
  IF tries = 0 \/ min >= max THEN Min(min, max)
  ELSE DoubledCapped(2 * min, max, tries - 1)

\* utils::continue_exponential_backoff_secs
ContinueExponentialBackoffSecs(min, max, elapsed, tries) ==
  elapsed < DoubledCapped(min, max, tries)

\* u32::wrapping_add, at the model's width
WrappingAdd(a, b) == (a + b) % (TriesMax + 1)

\* u32::saturating_add, at the model's width
SaturatingAdd(a, b) == Min(a + b, TriesMax)

\* back_off whose Occupied arm keeps the count: (Instant::now(), e.get().1)
BackOffSameTries(rl, id, t) ==
  IF id \notin DOMAIN rl
  THEN [ x \in DOMAIN rl \cup { id } |->
           IF x = id THEN [ time |-> t, tries |-> 1 ] ELSE rl[x] ]
  ELSE [ rl EXCEPT ![id] = [ time |-> t, tries |-> rl[id].tries ] ]

\* the back_off closure
BackOff(rl, id, t) ==
  IF id \notin DOMAIN rl
  THEN [ x \in DOMAIN rl \cup { id } |->
           IF x = id THEN [ time |-> t, tries |-> 1 ] ELSE rl[x] ]
  ELSE [ rl EXCEPT ![id] = [ time |-> t, tries |-> SaturatingAdd(rl[id].tries, 1) ] ]

\* FetchBackoff with the failure count left out of the window
FetchBackoffFlat(id) ==
  /\ id \in DOMAIN ratelimiter
  /\ ContinueExponentialBackoffSecs(FETCH_MIN_DURATION, FETCH_MAX_DURATION,
                                    now - ratelimiter[id].time, 0)

\* the fetch loop without its backoff check
FetchBackoffNever(id) == FALSE

\* a backoff check that looks at no clock: an id with an entry is skipped
FetchBackoffForever(id) == id \in DOMAIN ratelimiter

\* the backoff check of the fetch loop
FetchBackoff(id) ==
  /\ id \in DOMAIN ratelimiter
  /\ ContinueExponentialBackoffSecs(FETCH_MIN_DURATION, FETCH_MAX_DURATION,
                                    now - ratelimiter[id].time,
                                    ratelimiter[id].tries)

\* the backoff check of the validation loop
ValidateBackoff(id) ==
  /\ id \in DOMAIN ratelimiter
  /\ ContinueExponentialBackoffSecs(VALIDATE_MIN_DURATION, VALIDATE_MAX_DURATION,
                                    now - ratelimiter[id].time,
                                    ratelimiter[id].tries)

\* history: one more failure recorded for id at time t
Failed(f, id, t) == [ f EXCEPT ![id] = [ count |-> f[id].count + 1, last |-> t ] ]

\* the registry entry of id as an Option
Entry(id) == IF id \in DOMAIN ratelimiter THEN Some(ratelimiter[id]) ELSE None

----------------------------------------------------------------------------
\* no task holds the registry's lock; every task is at the top of its loop
IdleTasks ==
  /\ rwlock = [ readers |-> { }, writer |-> { } ]
  /\ tpc = [ t \in Tasks |-> "get_pdu" ]
  /\ attempts = [ t \in Tasks |-> 0 ]
  /\ task_entry = [ t \in Tasks |-> None ]

\* the outlier store has not been called
IdleOutlier ==
  /\ last_put = << >>
  /\ got = None

\* no send_leave request has come in
IdleLeave ==
  /\ leave_req = None
  /\ leave_result = None

\* no pdu has been given to server_keys
IdleVerify ==
  /\ verify_req = None
  /\ verify_result = None

\* no power-levels content has been given to the parsers
IdlePower ==
  /\ pl_req = None
  /\ pl_result = None

\* no login token exists and no login request is under way
IdleLogin ==
  /\ logintoken_expiresatuserid = << >>
  /\ login_tasks = << >>
  /\ login_now = 0
  /\ login_issued = 0

\* no device exists
IdleDevice ==
  /\ userdeviceid_metadata = { }
  /\ userdeviceid_token = << >>
  /\ token_userdeviceid = << >>
  /\ tokens_issued = 0
  /\ current_token = << >>

\* no url has been given to a proxy
IdleProxy ==
  /\ proxy_req = None
  /\ proxy_result = None

\* no send_leave request has got as far as the room's mutex
IdleMutex ==
  /\ mutex_federation = << >>
  /\ leave_tasks = << >>

\* no watch and no wake has been called
IdleWatch ==
  /\ watchers = << >>
  /\ channels = << >>
  /\ watch_tasks = << >>
  /\ wake_tasks = << >>
  /\ send_failed = FALSE

IdleServices ==
  /\ IdlePower
  /\ IdleLogin
  /\ IdleDevice
  /\ IdleProxy
  /\ IdleMutex
  /\ IdleWatch

Idle ==
  /\ IdleTasks
  /\ IdleOutlier
  /\ IdleLeave
  /\ IdleVerify
  /\ IdleServices

\* a server that has just started: no call of the resolver yet
InitResolver ==
  /\ timeline = Ids \ RemoteIds
  /\ outliers = << >>
  /\ ratelimiter = << >>
  /\ now = 0
  /\ ticks = 0
  /\ pc = "idle"
  /\ events = << >>
  /\ room_version = TRUE
  /\ i = 0
  /\ todo = << >>
  /\ rev = << >>
  /\ seen = { }
  /\ ewa = << >>
  /\ j = 0
  /\ order = << >>
  /\ k = 0
  /\ pdus = << >>
  /\ calls = 0
  /\ netlog = << >>
  /\ handled = << >>
  /\ failures = [ id \in Ids |-> [ count |-> 0, last |-> 0 ] ]

InitCall ==
  /\ origin_events = ServedByDefault
  /\ InitResolver

Init ==
  /\ InitCall
  /\ Idle


----------------------------------------------------------------------------
(* fetch_and_handle_outliers *)

\* the lists of requested ids a call may be given
Requests == UNION { [ 1 .. n -> Ids ] : n \in 0 .. MaxReq }

\* the first loop moves on to the next requested id, or the second loop starts
NextRequested ==
  /\ i' = i + 1
  /\ todo' = << >>
  /\ rev' = << >>
  /\ seen' = { }
  /\ IF i + 1 > Len(events)
     THEN pc' = "validate" /\ j' = 1
     ELSE pc' = "lookup" /\ j' = j

\* a call with exactly one requested id
SingleRequests == [ 1 .. 1 -> Ids ]

StartCallWith(requests) ==
  /\ pc = "idle"
  /\ calls < MaxCalls
  /\ \E evs \in requests, rv \in BOOLEAN :
       /\ events' = evs
       /\ room_version' = rv
       /\ IF evs = << >> THEN pc' = "validate" /\ j' = 1
                         ELSE pc' = "lookup" /\ j' = 0
  /\ calls' = calls + 1
  /\ i' = 1
  /\ todo' = << >> /\ rev' = << >> /\ seen' = { } /\ ewa' = << >>
  /\ order' = << >> /\ k' = 0 /\ pdus' = << >>
  /\ netlog' = << >> /\ handled' = << >>
  /\ UNCHANGED << elsewhere, stores, ratelimiter, clock, failures >>

StartCall == StartCallWith(Requests)

StartCallSingle == StartCallWith(SingleRequests)

\* a. b. the requested id is in the timeline or the outlier store
LookupLocal ==
  /\ pc = "lookup"
  /\ IsSome(GetPdu(events[i]))
  /\ ewa' = Append(ewa, [ id |-> events[i], local_pdu |-> GetPdu(events[i]),
                          fetched |-> << >> ])
  /\ NextRequested
  /\ UNCHANGED << elsewhere, stores, ratelimiter, clock, call, order, k, pdus, calls,
                  netlog, handled, failures >>

\* c. it is not: its fetch loop starts with the id alone on the worklist
LookupMiss ==
  /\ pc = "lookup"
  /\ ~ IsSome(GetPdu(events[i]))
  /\ todo' = << events[i] >>
  /\ rev' = << >>
  /\ seen' = { }
  /\ pc' = "fetch"
  /\ UNCHANGED << elsewhere, stores, ratelimiter, clock, call, i, ewa, loop2, calls,
                  netlog, handled, failures >>

\* the fetch loop goes round without popping next_id
FetchSkipKeeps ==
  /\ todo' = todo
  /\ UNCHANGED << elsewhere, stores, ratelimiter, clock, pc, call, i, rev, seen, ewa,
                  loop2, calls, netlog, handled, failures >>

\* the fetch loop has popped next_id and goes round without a request
FetchSkip ==
  /\ todo' = Tail(todo)
  /\ UNCHANGED << elsewhere, stores, ratelimiter, clock, pc, call, i, rev, seen, ewa,
                  loop2, calls, netlog, handled, failures >>

FetchSkipBackoff ==
  /\ pc = "fetch" /\ todo # << >>
  /\ FetchBackoff(Head(todo))
  /\ FetchSkip

FetchSkipSeen ==
  /\ pc = "fetch" /\ todo # << >>
  /\ ~ FetchBackoff(Head(todo))
  /\ Head(todo) \in seen
  /\ FetchSkip

FetchSkipExists ==
  /\ pc = "fetch" /\ todo # << >>
  /\ ~ FetchBackoff(Head(todo))
  /\ Head(todo) \notin seen
  /\ PduExists(Head(todo))
  /\ FetchSkip

\* SendsRequest without the pdu_exists check
SendsRequestExisting ==
  /\ pc = "fetch" /\ todo # << >>
  /\ ~ FetchBackoff(Head(todo))
  /\ Head(todo) \notin seen

\* the fetch loop sends get_event for the head of the worklist
SendsRequest ==
  /\ pc = "fetch" /\ todo # << >>
  /\ ~ FetchBackoff(Head(todo))
  /\ Head(todo) \notin seen
  /\ ~ PduExists(Head(todo))

Request(id, outcome) ==
  [ id |-> id, time |-> now, entry |-> Entry(id), outcome |-> outcome ]

\* FetchFailed that forgets back_off
FetchFailedNoBackOff(outcome) ==
  /\ todo' = Tail(todo)
  /\ netlog' = Append(netlog, Request(Head(todo), outcome))
  /\ UNCHANGED << elsewhere, stores, ratelimiter, clock, pc, call, i, rev, seen, ewa,
                  loop2, calls, handled, failures >>

\* the request, the room version or the canonicalization fails: back_off
FetchFailed(outcome) ==
  /\ ratelimiter' = BackOff(ratelimiter, Head(todo), now)
  /\ failures' = Failed(failures, Head(todo), now)
  /\ todo' = Tail(todo)
  /\ netlog' = Append(netlog, Request(Head(todo), outcome))
  /\ UNCHANGED << elsewhere, stores, clock, pc, call, i, rev, seen, ewa, loop2, calls,
                  handled >>

FetchErr ==
  /\ SendsRequest
  /\ FetchFailed("error")

FetchNoRoomVersion ==
  /\ SendsRequest
  /\ ~ room_version
  /\ FetchFailed("no_room_version")

FetchNotCanonical ==
  /\ SendsRequest
  /\ room_version
  /\ FetchFailed("not_canonical")

\* the origin answers with some event: its auth_events join the worklist
FetchOk ==
  /\ SendsRequest
  /\ room_version
  /\ \E c \in Ids :
       LET value == GenEventIdCanonicalJson(c)
           auth == IF IsSome(value.auth_events)
                   THEN SelectIds(Unwrap(value.auth_events)) ELSE << >>
       IN /\ todo' = Tail(todo) \o auth
          /\ rev' = Append(rev, [ id |-> Head(todo), value |-> value ])
          /\ seen' = seen \cup { Head(todo) }
  /\ netlog' = Append(netlog, Request(Head(todo), "ok"))
  /\ UNCHANGED << elsewhere, stores, ratelimiter, clock, pc, call, i, ewa, loop2, calls,
                  handled, failures >>

\* the worklist is empty: the requested id's entry is pushed
FetchDone ==
  /\ pc = "fetch" /\ todo = << >>
  /\ ewa' = Append(ewa, [ id |-> events[i], local_pdu |-> None, fetched |-> rev ])
  /\ NextRequested
  /\ UNCHANGED << elsewhere, stores, ratelimiter, clock, call, order, k, pdus, calls,
                  netlog, handled, failures >>

\* the fetched events in the order they were fetched, without rev()
ValidationOrderForward(fetched) == fetched

\* events_in_reverse_order.into_iter().rev()
ValidationOrder(fetched) == Reverse(fetched)

\* the second loop takes the next entry: a local pdu is pushed with no json
ValidateBegin ==
  /\ pc = "validate" /\ j <= Len(ewa)
  /\ pdus' = IF IsSome(ewa[j].local_pdu)
             THEN Append(pdus, [ pdu |-> Unwrap(ewa[j].local_pdu), json |-> None ])
             ELSE pdus
  /\ order' = ValidationOrder(ewa[j].fetched)
  /\ k' = 1
  /\ pc' = "admit"
  /\ UNCHANGED << elsewhere, stores, ratelimiter, clock, call, loop1, j, calls, netlog,
                  handled, failures >>

\* what handle_outlier_pdu is called with: the event id and the object
AdmitterArgs(next_id, value) == [ event_id |-> next_id, value |-> value ]

\* history: what became of order[k], and under which id the admitter got it
Handled(outcome) ==
  [ pos |-> j, id |-> order[k].id,
    admitted_as |-> AdmitterArgs(order[k].id, order[k].value).event_id,
    content |-> order[k].value.calculated_event_id,
    outcome |-> outcome, time |-> now, entry |-> Entry(order[k].id) ]

\* ValidateSkipBackoff that counts the skip as a failure
ValidateSkipBackoffRecords ==
  /\ pc = "admit" /\ k <= Len(order)
  /\ ValidateBackoff(order[k].id)
  /\ ratelimiter' = BackOff(ratelimiter, order[k].id, now)
  /\ k' = k + 1
  /\ handled' = Append(handled, Handled("skip"))
  /\ UNCHANGED << elsewhere, stores, clock, pc, call, loop1, j, order, pdus,
                  calls, netlog, failures >>

ValidateSkipBackoff ==
  /\ pc = "admit" /\ k <= Len(order)
  /\ ValidateBackoff(order[k].id)
  /\ k' = k + 1
  /\ handled' = Append(handled, Handled("skip"))
  /\ UNCHANGED << elsewhere, stores, ratelimiter, clock, pc, call, loop1, j, order, pdus,
                  calls, netlog, failures >>

\* handle_outlier_pdu returns Ok((pdu, json)) and has persisted the outlier
HandleOutlierPduOk(args) ==
  /\ outliers' = AddPduOutlier(outliers, args.event_id, args.value)
  /\ UNCHANGED timeline

\* PushFetched without the comparison of next_id and id
PushFetchedAlways(result, next_id, id, args) ==
  Append(result, [ pdu |-> PduEvent(args.event_id, args.value),
                   json |-> Some(args.value) ])

\* PushFetched that drops the json
PushFetchedNoJson(result, next_id, id, args) ==
  IF next_id = id
  THEN Append(result, [ pdu |-> PduEvent(args.event_id, args.value),
                        json |-> None ])
  ELSE result

\* Ok((pdu, json)) => if next_id == *id { pdus.push((pdu, Some(json))) }
PushFetched(result, next_id, id, args) ==
  IF next_id = id
  THEN Append(result, [ pdu |-> PduEvent(args.event_id, args.value),
                        json |-> Some(args.value) ])
  ELSE result

\* ValidateOk that clears the registry entry of the event it admitted
ValidateOkResets ==
  /\ pc = "admit" /\ k <= Len(order)
  /\ ~ ValidateBackoff(order[k].id)
  /\ LET args == AdmitterArgs(order[k].id, order[k].value)
     IN /\ HandleOutlierPduOk(args)
        /\ pdus' = PushFetched(pdus, order[k].id, ewa[j].id, args)
        /\ handled' = Append(handled, Handled("ok"))
  /\ ratelimiter' = [ x \in DOMAIN ratelimiter \ { order[k].id } |-> ratelimiter[x] ]
  /\ k' = k + 1
  /\ UNCHANGED << elsewhere, clock, pc, call, loop1, j, order, calls, netlog, failures >>

ValidateOk ==
  /\ pc = "admit" /\ k <= Len(order)
  /\ ~ ValidateBackoff(order[k].id)
  /\ LET args == AdmitterArgs(order[k].id, order[k].value)
     IN /\ HandleOutlierPduOk(args)
        /\ pdus' = PushFetched(pdus, order[k].id, ewa[j].id, args)
        /\ handled' = Append(handled, Handled("ok"))
  /\ k' = k + 1
  /\ UNCHANGED << elsewhere, ratelimiter, clock, pc, call, loop1, j, order, calls, netlog,
                  failures >>

\* ValidateErr that returns from the call, as Err(e)? would
ValidateErrReturns ==
  /\ pc = "admit" /\ k <= Len(order)
  /\ ~ ValidateBackoff(order[k].id)
  /\ ratelimiter' = BackOff(ratelimiter, order[k].id, now)
  /\ failures' = Failed(failures, order[k].id, now)
  /\ handled' = Append(handled, Handled("error"))
  /\ pc' = "done"
  /\ UNCHANGED << elsewhere, stores, clock, call, loop1, loop2, calls, netlog >>

\* handle_outlier_pdu returns Err: back_off(next_id)
ValidateErr ==
  /\ pc = "admit" /\ k <= Len(order)
  /\ ~ ValidateBackoff(order[k].id)
  /\ ratelimiter' = BackOff(ratelimiter, order[k].id, now)
  /\ failures' = Failed(failures, order[k].id, now)
  /\ handled' = Append(handled, Handled("error"))
  /\ k' = k + 1
  /\ UNCHANGED << elsewhere, stores, clock, pc, call, loop1, j, order, pdus, calls, netlog >>

\* the entry's fetched events are through
ValidateNext ==
  /\ pc = "admit" /\ k > Len(order)
  /\ j' = j + 1
  /\ order' = << >>
  /\ k' = 0
  /\ pc' = "validate"
  /\ UNCHANGED << elsewhere, stores, ratelimiter, clock, call, loop1, pdus, calls, netlog,
                  handled, failures >>

\* the call returns pdus
Return ==
  /\ pc = "validate" /\ j > Len(ewa)
  /\ pc' = "done"
  /\ UNCHANGED << elsewhere, stores, ratelimiter, clock, call, loop1, loop2, calls, netlog,
                  handled, failures >>

\* the caller has taken the result
Finish ==
  /\ pc = "done"
  /\ pc' = "idle"
  /\ events' = << >> /\ room_version' = TRUE
  /\ i' = 0 /\ todo' = << >> /\ rev' = << >> /\ seen' = { } /\ ewa' = << >>
  /\ j' = 0 /\ order' = << >> /\ k' = 0 /\ pdus' = << >>
  /\ netlog' = << >> /\ handled' = << >>
  /\ UNCHANGED << elsewhere, stores, ratelimiter, clock, calls, failures >>

\* time passes
Tick ==
  /\ ticks < MaxTicks
  /\ ticks' = ticks + 1
  /\ now' = now + TickSecs
  /\ UNCHANGED << elsewhere, stores, ratelimiter, pc, call, loop1, loop2, calls, netlog,
                  handled, failures >>

\* the steps of a running call
Resolve ==
  \/ LookupLocal
  \/ LookupMiss
  \/ FetchSkipBackoff
  \/ FetchSkipSeen
  \/ FetchSkipExists
  \/ FetchErr
  \/ FetchNoRoomVersion
  \/ FetchNotCanonical
  \/ FetchOk
  \/ FetchDone
  \/ ValidateBegin
  \/ ValidateSkipBackoff
  \/ ValidateOk
  \/ ValidateErr
  \/ ValidateNext
  \/ Return
  \/ Finish

\* Calls of the resolver, each over before any backoff window has elapsed.
Next ==
  \/ StartCall
  \/ Resolve

Spec == Init /\ [][Next]_vars

\* Calls for one requested id each, with time passing between their steps.
NextTimed ==
  \/ StartCallSingle
  \/ Resolve
  \/ Tick

SpecTimed == Init /\ [][NextTimed]_vars

\* Calls against an origin whose events may refer to each other in cycles
\* and repeat ids.  The task of a call is polled until it completes, and
\* every request to the origin is answered or fails.
InitOrigins ==
  /\ origin_events \in Origins
  /\ InitResolver
  /\ Idle

NextOrigins ==
  \/ StartCall
  \/ Resolve

SpecOrigins == InitOrigins /\ [][NextOrigins]_vars /\ WF_vars(Resolve)

----------------------------------------------------------------------------
(* A long-running server: the registry already holds entries for events    *)
(* that failed many times, a day ago                                       *)

\* the failure counts of the old entries: one below saturation, and saturated
WornTries == { TriesMax - 1, TriesMax }

\* the registries the server may hold: old entries for some of the remote ids
WornRegistries ==
  UNION { [ S -> { [ time |-> 0, tries |-> t ] : t \in WornTries } ] :
          S \in SUBSET RemoteIds }

InitWorn ==
  /\ origin_events = ServedByDefault
  /\ timeline = Ids \ RemoteIds
  /\ outliers = << >>
  /\ ratelimiter \in WornRegistries
  /\ now = VALIDATE_MAX_DURATION
  /\ ticks = 0
  /\ pc = "idle"
  /\ events = << >>
  /\ room_version = TRUE
  /\ i = 0
  /\ todo = << >>
  /\ rev = << >>
  /\ seen = { }
  /\ ewa = << >>
  /\ j = 0
  /\ order = << >>
  /\ k = 0
  /\ pdus = << >>
  /\ calls = 0
  /\ netlog = << >>
  /\ handled = << >>
  /\ failures = [ id \in Ids |->
                    IF id \in DOMAIN ratelimiter
                    THEN [ count |-> ratelimiter[id].tries, last |-> 0 ]
                    ELSE [ count |-> 0, last |-> 0 ] ]
  /\ Idle

SpecWorn == InitWorn /\ [][NextTimed]_vars

----------------------------------------------------------------------------
(* The registry on its own: failures recorded for one id, and the clock *)

\* the waits between two steps: the windows' minima doubled up to MaxDoublings
\* times, and the windows' maxima
Waits ==
  { FETCH_MIN_DURATION * 2 ^ e : e \in 0 .. MaxDoublings }
    \cup { VALIDATE_MIN_DURATION * 2 ^ e : e \in 0 .. MaxDoublings }
    \cup { FETCH_MAX_DURATION, VALIDATE_MAX_DURATION }

\* the id the failures are recorded for
FailingIds == { id \in RemoteIds : \A other \in RemoteIds : id <= other }

\* some step of some call records a failure for the id
RecordFailure ==
  /\ \E id \in FailingIds :
       /\ failures[id].count <= TriesMax
       /\ ratelimiter' = BackOff(ratelimiter, id, now)
       /\ failures' = Failed(failures, id, now)
  /\ UNCHANGED << elsewhere, stores, clock, pc, call, loop1, loop2, calls, netlog, handled >>

Wait ==
  /\ ticks < MaxWaits
  /\ ticks' = ticks + 1
  /\ \E d \in Waits : now' = now + d
  /\ UNCHANGED << elsewhere, stores, ratelimiter, pc, call, loop1, loop2, calls, netlog,
                  handled, failures >>

NextBackoff ==
  \/ RecordFailure
  \/ Wait

SpecBackoff == Init /\ [][NextBackoff]_vars

----------------------------------------------------------------------------
(* The registry's lock: resolver tasks working on the same id, statement by *)
(* statement.  A guard taken in the scrutinee of `if let` or `match` lives  *)
(* to the end of that statement.                                            *)

\* the id the tasks work on
TaskId == CHOOSE id \in FailingIds : TRUE

\* the statements at which a task awaits: it is suspended there
Suspended == { "get_pdu", "pdu_exists", "request", "admit" }

\* the task goes to statement `next`
Goto(t, next) == tpc' = [ tpc EXCEPT ![t] = next ]

\* the task is through with a worklist entry and takes the next, or returns
NextEntry(t) ==
  /\ attempts' = [ attempts EXCEPT ![t] = attempts[t] + 1 ]
  /\ Goto(t, IF attempts[t] + 1 >= MaxAttempts THEN "returned" ELSE "get_pdu")

\* timeline.get_pdu(id).await misses; the fetch loop pops the id
TaskGetPduMiss(t) ==
  /\ tpc[t] = "get_pdu"
  /\ Goto(t, "fetch_lock")
  /\ UNCHANGED << resolution, beside_tasks, task_entry, ratelimiter, clock, failures, rwlock, attempts >>

\* bad_event_ratelimiter.read(): granted while no task holds the write lock
TaskAcquireRead(t) ==
  /\ tpc[t] \in { "fetch_lock", "validate_lock" }
  /\ rwlock.writer = { }
  /\ rwlock' = [ rwlock EXCEPT !.readers = @ \cup { t } ]
  /\ Goto(t, IF tpc[t] = "fetch_lock" THEN "fetch_check" ELSE "validate_check")
  /\ UNCHANGED << resolution, beside_tasks, task_entry, ratelimiter, clock, failures, attempts >>

\* the read guard is dropped
ReleaseRead(t) == rwlock' = [ rwlock EXCEPT !.readers = @ \ { t } ]

\* fetch loop: backing off, `continue` leaves the `if let` and drops the guard
TaskFetchCheckSkip(t) ==
  /\ tpc[t] = "fetch_check"
  /\ FetchBackoff(TaskId)
  /\ ReleaseRead(t)
  /\ NextEntry(t)
  /\ UNCHANGED << resolution, beside_tasks, task_entry, ratelimiter, clock, failures >>

\* TaskFetchCheckPass with the guard bound by `let`, alive to the end of the
\* iteration
TaskFetchCheckPassHolding(t) ==
  /\ tpc[t] = "fetch_check"
  /\ ~ FetchBackoff(TaskId)
  /\ Goto(t, "pdu_exists")
  /\ UNCHANGED << resolution, beside_tasks, task_entry, ratelimiter, clock, failures, rwlock, attempts >>

\* fetch loop: not backing off, the `if let` ends and drops the guard; the
\* task goes on to timeline.pdu_exists(&next_id).await
TaskFetchCheckPass(t) ==
  /\ tpc[t] = "fetch_check"
  /\ ~ FetchBackoff(TaskId)
  /\ ReleaseRead(t)
  /\ Goto(t, "pdu_exists")
  /\ UNCHANGED << resolution, beside_tasks, task_entry, ratelimiter, clock, failures, attempts >>

\* pdu_exists answers no; the task sends the federation request and awaits
TaskPduExistsNo(t) ==
  /\ tpc[t] = "pdu_exists"
  /\ Goto(t, "request")
  /\ UNCHANGED << resolution, beside_tasks, task_entry, ratelimiter, clock, failures, rwlock, attempts >>

\* the request is answered and the event kept; its turn in the second loop
TaskRequestOk(t) ==
  /\ tpc[t] = "request"
  /\ Goto(t, "validate_lock")
  /\ UNCHANGED << resolution, beside_tasks, task_entry, ratelimiter, clock, failures, rwlock, attempts >>

\* the request fails: back_off is called
TaskRequestErr(t) ==
  /\ tpc[t] = "request"
  /\ Goto(t, "back_off")
  /\ UNCHANGED << resolution, beside_tasks, task_entry, ratelimiter, clock, failures, rwlock, attempts >>

\* validation loop: backing off, `continue`
TaskValidateCheckSkip(t) ==
  /\ tpc[t] = "validate_check"
  /\ ValidateBackoff(TaskId)
  /\ ReleaseRead(t)
  /\ NextEntry(t)
  /\ UNCHANGED << resolution, beside_tasks, task_entry, ratelimiter, clock, failures >>

\* validation loop: not backing off; handle_outlier_pdu(..).await
TaskValidateCheckPass(t) ==
  /\ tpc[t] = "validate_check"
  /\ ~ ValidateBackoff(TaskId)
  /\ ReleaseRead(t)
  /\ Goto(t, "admit")
  /\ UNCHANGED << resolution, beside_tasks, task_entry, ratelimiter, clock, failures, attempts >>

\* the admitter accepts the event
TaskAdmitOk(t) ==
  /\ tpc[t] = "admit"
  /\ NextEntry(t)
  /\ UNCHANGED << resolution, beside_tasks, task_entry, ratelimiter, clock, failures, rwlock >>

\* the admitter rejects it: back_off is called
TaskAdmitErr(t) ==
  /\ tpc[t] = "admit"
  /\ Goto(t, "back_off")
  /\ UNCHANGED << resolution, beside_tasks, task_entry, ratelimiter, clock, failures, rwlock, attempts >>

\* TaskAcquireWrite with a lock that is granted whoever holds it
TaskAcquireWriteShared(t) ==
  /\ tpc[t] = "back_off"
  /\ rwlock' = [ rwlock EXCEPT !.writer = @ \cup { t } ]
  /\ task_entry' = [ task_entry EXCEPT ![t] = Entry(TaskId) ]
  /\ Goto(t, "back_off_entry")
  /\ UNCHANGED << resolution, beside_tasks, ratelimiter, clock, failures, attempts >>

\* back_off: bad_event_ratelimiter.write(), granted while no task holds the
\* lock, and .entry(id): the entry is Vacant or Occupied
TaskAcquireWrite(t) ==
  /\ tpc[t] = "back_off"
  /\ rwlock.writer = { } /\ rwlock.readers = { }
  /\ rwlock' = [ rwlock EXCEPT !.writer = { t } ]
  /\ task_entry' = [ task_entry EXCEPT ![t] = Entry(TaskId) ]
  /\ Goto(t, "back_off_entry")
  /\ UNCHANGED << resolution, beside_tasks, ratelimiter, clock, failures, attempts >>

\* the arms of the match in back_off: Vacant inserts (now, 1), Occupied
\* stores (now, e.get().1.saturating_add(1))
BackOffEntry(rl, id, entry, t) ==
  [ x \in DOMAIN rl \cup { id } |->
      IF x # id THEN rl[x]
      ELSE IF IsSome(entry)
           THEN [ time |-> t, tries |-> SaturatingAdd(Unwrap(entry).tries, 1) ]
           ELSE [ time |-> t, tries |-> 1 ] ]

\* back_off: the entry is inserted or updated; the `match` ends and drops the
\* write guard
TaskBackOffWrite(t) ==
  /\ tpc[t] = "back_off_entry"
  /\ ratelimiter' = BackOffEntry(ratelimiter, TaskId, task_entry[t], now)
  /\ failures' = Failed(failures, TaskId, now)
  /\ rwlock' = [ rwlock EXCEPT !.writer = @ \ { t } ]
  /\ task_entry' = [ task_entry EXCEPT ![t] = None ]
  /\ NextEntry(t)
  /\ UNCHANGED << resolution, beside_tasks, clock >>

TaskStep(t) ==
  \/ TaskGetPduMiss(t)
  \/ TaskAcquireRead(t)
  \/ TaskFetchCheckSkip(t)
  \/ TaskFetchCheckPass(t)
  \/ TaskPduExistsNo(t)
  \/ TaskRequestOk(t)
  \/ TaskRequestErr(t)
  \/ TaskValidateCheckSkip(t)
  \/ TaskValidateCheckPass(t)
  \/ TaskAdmitOk(t)
  \/ TaskAdmitErr(t)
  \/ TaskAcquireWrite(t)
  \/ TaskBackOffWrite(t)

NextLock ==
  \/ \E t \in Tasks : TaskStep(t)
  \/ Tick

SpecLock == Init /\ [][NextLock]_vars

----------------------------------------------------------------------------
(* The outlier store on its own: objects put and got by event id *)

Fields == 1 .. NumFields
FieldValues == 0 .. NumValues - 1

\* the canonical objects: some of the fields, each with a value
CanonicalObjects == UNION { [ S -> FieldValues ] : S \in SUBSET Fields }

\* add_pdu_outlier(event_id, pdu)
PutOutlier ==
  /\ \E id \in RemoteIds, obj \in CanonicalObjects :
       /\ outliers' = AddPduOutlier(outliers, id, obj)
       /\ last_put' = [ x \in DOMAIN last_put \cup { id } |->
                          IF x = id THEN obj ELSE last_put[x] ]
  /\ UNCHANGED << timeline, ratelimiter, clock, pc, call, loop1, loop2, calls,
                  netlog, handled, failures, beside_outlier, got >>

\* get_outlier_pdu_json(event_id)
GetOutlier ==
  /\ \E id \in Ids :
       got' = Some([ id |-> id, result |-> GetOutlierPduJson(id),
                     last |-> IF id \in DOMAIN last_put
                              THEN Some(last_put[id]) ELSE None ])
  /\ UNCHANGED << stores, ratelimiter, clock, pc, call, loop1, loop2, calls,
                  netlog, handled, failures, beside_outlier, last_put >>

NextOutlier ==
  \/ PutOutlier
  \/ GetOutlier

SpecOutlier == Init /\ [][NextOutlier]_vars

----------------------------------------------------------------------------
(* api/server/send_leave: create_leave_event *)

Rooms == 1 .. NumRooms
Servers == 1 .. NumServers
\* a room_id value that is no room id, a user id value that is no user id
BadRoom == 0
BadUser == 0
\* user ids, by their server
Users == Servers

\* a field of the event: absent, or present with one of the values
Field(values) == { None } \cup { Some(v) : v \in values }

\* the events a request may carry, as their canonical objects
LeaveEvents ==
  [ room_id : Field(Rooms \cup { BadRoom }),
    content : Field({ "leave", "join", "invalid" }),
    type : Field({ "m.room.member", "m.room.name", "invalid" }),
    sender : Field(Users \cup { BadUser }),
    state_key : Field(Users \cup { BadUser }) ]

\* a request: origin, the room id of the path and the event, with what the
\* services answer while it is handled
LeaveRequests ==
  [ origin : Servers,
    room_id : Rooms,
    event : LeaveEvents,
    exists : BOOLEAN,              \* rooms.metadata.exists(room_id)
    denied : SUBSET Servers,       \* the servers acl_check refuses for the room
    room_version : BOOLEAN,        \* state.get_room_version(room_id) is Ok
    canonical : BOOLEAN,           \* gen_event_id_canonical_json is Ok
    admit : { "err", "none", "some" },  \* what handle_incoming_pdu returns
    send : BOOLEAN ]               \* sending.send_pdu_room is Ok

\* the handler returns the error of source line `line`
LeaveErr(line, admitted) ==
  [ ok |-> FALSE, line |-> line, admitted |-> admitted, sent |-> FALSE ]

\* the source lines of the handler that return Err!(Request(..))
RequestErrors ==
  { 50, 69, 76, 80, 83, 89, 93, 96, 104, 108, 111, 120, 124, 133, 139, 143,
    146, 162 }

\* the comparison with the path left out
RoomIdMismatchNever(event_room_id, room_id) == FALSE

\* if event_room_id != room_id
RoomIdMismatch(event_room_id, room_id) == event_room_id # room_id

\* the comparison of state_key and sender left out
StateKeyMismatchNever(state_key, sender) == FALSE

\* if state_key != sender
StateKeyMismatch(state_key, sender) == state_key # sender

\* create_leave_event: the line it returns at, and whether it has called
\* handle_incoming_pdu and send_pdu_room
CreateLeaveEvent(r) ==
  LET e == r.event
  IN IF ~ r.exists THEN LeaveErr(50, FALSE)
     ELSE IF r.origin \in r.denied THEN LeaveErr(58, FALSE)
     ELSE IF ~ r.room_version THEN LeaveErr(66, FALSE)
     ELSE IF ~ r.canonical THEN LeaveErr(69, FALSE)
     ELSE IF ~ IsSome(e.room_id) THEN LeaveErr(76, FALSE)
     ELSE IF Unwrap(e.room_id) = BadRoom THEN LeaveErr(80, FALSE)
     ELSE IF RoomIdMismatch(Unwrap(e.room_id), r.room_id) THEN LeaveErr(83, FALSE)
     ELSE IF ~ IsSome(e.content) THEN LeaveErr(89, FALSE)
     ELSE IF Unwrap(e.content) = "invalid" THEN LeaveErr(93, FALSE)
     ELSE IF Unwrap(e.content) # "leave" THEN LeaveErr(96, FALSE)
     ELSE IF ~ IsSome(e.type) THEN LeaveErr(104, FALSE)
     ELSE IF Unwrap(e.type) = "invalid" THEN LeaveErr(108, FALSE)
     ELSE IF Unwrap(e.type) # "m.room.member" THEN LeaveErr(111, FALSE)
     ELSE IF ~ IsSome(e.sender) THEN LeaveErr(120, FALSE)
     ELSE IF Unwrap(e.sender) = BadUser THEN LeaveErr(124, FALSE)
     ELSE IF Unwrap(e.sender) \in r.denied THEN LeaveErr(130, FALSE)
     ELSE IF Unwrap(e.sender) # r.origin THEN LeaveErr(133, FALSE)
     ELSE IF ~ IsSome(e.state_key) THEN LeaveErr(139, FALSE)
     ELSE IF Unwrap(e.state_key) = BadUser THEN LeaveErr(143, FALSE)
     ELSE IF StateKeyMismatch(Unwrap(e.state_key), Unwrap(e.sender)) THEN LeaveErr(146, FALSE)
     ELSE IF r.admit = "err" THEN LeaveErr(161, TRUE)
     ELSE IF r.admit = "none" THEN LeaveErr(162, TRUE)
     ELSE [ ok |-> r.send, line |-> 170, admitted |-> TRUE, sent |-> TRUE ]

\* a send_leave request has come in
InitLeave ==
  /\ InitCall
  /\ IdleTasks
  /\ IdleOutlier
  /\ leave_req \in { Some(r) : r \in LeaveRequests }
  /\ leave_result = None
  /\ IdleVerify
  /\ IdleServices

\* create_leave_event_v1_route, create_leave_event_v2_route
CreateLeaveEventRoute ==
  /\ IsSome(leave_req)
  /\ leave_result = None
  /\ leave_result' = Some(CreateLeaveEvent(Unwrap(leave_req)))
  /\ UNCHANGED << resolution, ratelimiter, clock, failures, beside_leave, leave_req >>

NextLeave == CreateLeaveEventRoute

SpecLeave == InitLeave /\ [][NextLeave]_vars

----------------------------------------------------------------------------
(* service/server_keys/verify *)

Keys == 1 .. NumKeys

\* a pdu to validate, with the state of the keys and of its signatures
VerifyRequests ==
  [ canonical : BOOLEAN,       \* gen_event_id_canonical_json is Ok
    content : Ids,             \* what the pdu hashes to
    embedded : Field(Ids),     \* an event_id member the pdu itself carries
    required : SUBSET Keys,    \* the keys the event's signatures need
    cached : SUBSET Keys,      \* the keys the server holds
    fetchable : SUBSET Keys,   \* the keys a key fetch would get
    signed : BOOLEAN ]         \* the signatures and hashes are good

\* the object with `key` set to v, as CanonicalJsonObject::insert leaves it
Insert(obj, key, v) ==
  [ x \in DOMAIN obj \cup { key } |-> IF x = key THEN v ELSE obj[x] ]

\* the derived event id of the pdu
DerivedEventId(r) == GenEventIdCanonicalJson(r.content).calculated_event_id

\* its canonical object
CanonicalValue(r) ==
  IF IsSome(r.embedded)
  THEN [ auth_events |-> GenEventIdCanonicalJson(r.content).auth_events,
         event_id |-> Unwrap(r.embedded) ]
  ELSE [ auth_events |-> GenEventIdCanonicalJson(r.content).auth_events ]

\* required_keys_exist
RequiredKeysExist(r) == r.required \subseteq r.cached

\* verify_event: get_event_keys fetches the keys the server does not hold,
\* then the signatures are checked
VerifyEvent(r) ==
  LET missing == r.required \ r.cached
  IN [ ok |-> missing \subseteq r.fetchable /\ r.signed, fetched |-> missing ]

\* the function returns the error of source line `line`
VerifyErr(line, verify) ==
  [ ok |-> FALSE, line |-> line, verify_event |-> IsSome(verify),
    fetched |-> IF IsSome(verify) THEN Unwrap(verify).fetched ELSE { } ]

\* Ok((event_id, value))
VerifyOk(line, verify, event_id, value) ==
  [ ok |-> TRUE, line |-> line, verify_event |-> TRUE,
    fetched |-> verify.fetched, event_id |-> event_id, value |-> value ]

\* validate_and_add_event_id that goes on when verify_event has failed
ValidateAndAddEventIdUnverified(r) ==
  IF ~ r.canonical THEN VerifyErr(13, None)
  ELSE LET event_id == DerivedEventId(r)
           verify == VerifyEvent(r)
       IN VerifyOk(25, verify, event_id,
                   Insert(CanonicalValue(r), "event_id", event_id))

\* validate_and_add_event_id
ValidateAndAddEventId(r) ==
  IF ~ r.canonical THEN VerifyErr(13, None)
  ELSE LET event_id == DerivedEventId(r)
           verify == VerifyEvent(r)
       IN IF ~ verify.ok THEN VerifyErr(18, Some(verify))
          ELSE VerifyOk(25, verify, event_id,
                        Insert(CanonicalValue(r), "event_id", event_id))

\* validate_and_add_event_id_no_fetch without its check of the keys
ValidateNoKeyCheck(r) == ValidateAndAddEventId(r)

\* validate_and_add_event_id_no_fetch
ValidateAndAddEventIdNoFetch(r) ==
  IF ~ r.canonical THEN VerifyErr(34, None)
  ELSE LET event_id == DerivedEventId(r)
       IN IF ~ RequiredKeysExist(r) THEN VerifyErr(39, None)
          ELSE LET verify == VerifyEvent(r)
               IN IF ~ verify.ok THEN VerifyErr(48, Some(verify))
                  ELSE VerifyOk(55, verify, event_id,
                                Insert(CanonicalValue(r), "event_id", event_id))

\* a pdu has come in to be validated
InitVerify ==
  /\ InitCall
  /\ IdleTasks
  /\ IdleOutlier
  /\ IdleLeave
  /\ verify_req \in { Some(r) : r \in VerifyRequests }
  /\ verify_result = None
  /\ IdleServices

\* a caller validates the pdu with validate_and_add_event_id
CallValidateAndAddEventId ==
  /\ IsSome(verify_req)
  /\ verify_result = None
  /\ verify_result' = Some([ fn |-> "validate_and_add_event_id",
                             result |-> ValidateAndAddEventId(Unwrap(verify_req)) ])
  /\ UNCHANGED << resolution, ratelimiter, clock, failures, beside_verify, verify_req >>

\* a caller validates the pdu with validate_and_add_event_id_no_fetch
CallValidateAndAddEventIdNoFetch ==
  /\ IsSome(verify_req)
  /\ verify_result = None
  /\ verify_result' = Some([ fn |-> "validate_and_add_event_id_no_fetch",
                             result |-> ValidateAndAddEventIdNoFetch(Unwrap(verify_req)) ])
  /\ UNCHANGED << resolution, ratelimiter, clock, failures, beside_verify, verify_req >>

NextVerify ==
  \/ CallValidateAndAddEventId
  \/ CallValidateAndAddEventIdNoFetch

SpecVerify == InitVerify /\ [][NextVerify]_vars

----------------------------------------------------------------------------
(* core/matrix/state_res/power_levels *)

\* the user ids of a power-levels content: @1:x, @2:x, ..
PlUsers == 1 .. NumPlUsers

\* a JSON value found where a power level is expected: an integer, or a
\* string of characters (0..9 stand for the digits, 10 for a letter)
IntRaw(n) == [ t |-> "int", n |-> n, s |-> << >> ]
StrRaw(s) == [ t |-> "str", n |-> 0, s |-> s ]
RawLevels ==
  { IntRaw(0), IntRaw(100), StrRaw(<< 5, 0 >>), StrRaw(<< 1, 0, 0 >>), StrRaw(<< 10 >>) }

\* str::parse of a decimal number
RECURSIVE DecimalValue(_)
DecimalValue(s) ==
  IF s = << >> THEN 0 ELSE DecimalValue(SubSeq(s, 1, Len(s) - 1)) * 10 + s[Len(s)]

ParseInt(s) ==
  IF s # << >> /\ \A x \in DOMAIN s : s[x] \in 0 .. 9 THEN Some(DecimalValue(s)) ELSE None

\* ruma's default_power_level
DefaultPowerLevel == 50

\* a field of type Int: a native integer and nothing else
DeserializeInt(raw) == IF raw.t = "int" THEN Some(raw.n) ELSE None

\* deserialize_v1_powerlevel: a native integer or a string that holds one
DeserializeV1Powerlevel(raw) == IF raw.t = "int" THEN Some(raw.n) ELSE ParseInt(raw.s)

\* an integer field under the encoding of the room version
DeserializeLevel(raw, integer_power_levels) ==
  IF integer_power_levels THEN DeserializeInt(raw) ELSE DeserializeV1Powerlevel(raw)

\* #[serde(default ..)]: the field's default where the content has no such
\* field, None where the field does not deserialize
DeserializeField(content, field, default, integer_power_levels) ==
  IF content[field] = None
  THEN Some(default)
  ELSE DeserializeLevel(Unwrap(content[field]), integer_power_levels)

\* the entries of the "users" object, in the order of the content
UsersEntries(content) == IF content.users = None THEN << >> ELSE Unwrap(content.users)

\* the levels of the entries, None where one does not deserialize
UsersLevels(content, integer_power_levels) ==
  [ x \in DOMAIN UsersEntries(content) |->
      DeserializeLevel(UsersEntries(content)[x][2], integer_power_levels) ]

\* BTreeMap<OwnedUserId, Int>: a later entry of a user replaces an earlier one
RECURSIVE UsersMap(_, _, _)
UsersMap(entries, levels, n) ==
  IF n = 0
  THEN << >>
  ELSE LET before == UsersMap(entries, levels, n - 1)
           user == entries[n][1]
       IN  [ u \in DOMAIN before \cup { user } |->
               IF u = user THEN Unwrap(levels[n]) ELSE before[u] ]

ScalarFields ==
  { "ban", "kick", "redact", "state_default", "events_default", "invite", "users_default" }

\* defaults that are 0 for every field
FieldDefaultZero(field) == 0

\* IntRoomPowerLevelsEventContent, RoomPowerLevelsEventContent: the default
\* of each field
FieldDefault(field) ==
  IF field \in { "ban", "kick", "redact", "state_default" } THEN DefaultPowerLevel ELSE 0

\* from_json_str of the whole content, under one encoding
FromJsonStr(content, integer_power_levels) ==
  LET levels == UsersLevels(content, integer_power_levels)
      fields == [ f \in ScalarFields |->
                    DeserializeField(content, f, FieldDefault(f), integer_power_levels) ]
  IN  IF \/ \E x \in DOMAIN levels : levels[x] = None
         \/ \E f \in ScalarFields : fields[f] = None
      THEN None
      ELSE Some([ f \in ScalarFields \cup { "users" } |->
                    IF f = "users"
                    THEN UsersMap(UsersEntries(content), levels, Len(levels))
                    ELSE Unwrap(fields[f]) ])

DeserializeIntegerPowerLevels(content) == FromJsonStr(content, TRUE)

DeserializeLegacyPowerLevels(content) == FromJsonStr(content, FALSE)

\* deserialize_power_levels that takes every room version for a strict one
DeserializePowerLevelsInteger(content, integer_power_levels) ==
  DeserializeIntegerPowerLevels(content)

\* deserialize_power_levels that takes every room version for a legacy one
DeserializePowerLevelsLegacy(content, integer_power_levels) ==
  DeserializeLegacyPowerLevels(content)

DeserializePowerLevels(content, integer_power_levels) ==
  IF integer_power_levels
  THEN DeserializeIntegerPowerLevels(content)
  ELSE DeserializeLegacyPowerLevels(content)

\* Ord of (OwnedUserId, Int)
PairLess(a, b) == a[1] < b[1] \/ (a[1] = b[1] /\ a[2] < b[2])

\* the pair put at its place in a sorted vector
RECURSIVE SortedInsert(_, _)
SortedInsert(s, p) ==
  IF s = << >> THEN << p >>
  ELSE IF PairLess(p, Head(s)) THEN << p >> \o s
  ELSE << Head(s) >> \o SortedInsert(Tail(s), p)

\* slice::sort_unstable
RECURSIVE SortUnstable(_)
SortUnstable(s) ==
  IF s = << >> THEN << >> ELSE SortedInsert(SortUnstable(Tail(s)), Head(s))

\* Vec::dedup_by(|a, b| a.0 == b.0): of neighbours with one user id the first stays
RECURSIVE DedupByUser(_)
DedupByUser(s) ==
  IF Len(s) < 2 THEN s
  ELSE IF s[Len(s)][1] = s[Len(s) - 1][1]
  THEN DedupByUser(SubSeq(s, 1, Len(s) - 1))
  ELSE Append(DedupByUser(SubSeq(s, 1, Len(s) - 1)), s[Len(s)])

\* the deserialized entries in the order of the content
Pushed(entries, levels) ==
  [ x \in DOMAIN entries |-> << entries[x][1], Unwrap(levels[x]) >> ]

\* a vector deserializer that leaves the entries as the content has them
VecDeserializeUnsorted(entries, levels) == Pushed(entries, levels)

\* vec_deserialize_v1_powerlevel_values, vec_deserialize_int_powerlevel_values
VecDeserializePowerlevelValues(entries, levels) ==
  DedupByUser(SortUnstable(Pushed(entries, levels)))

\* deserialize_integer_power_levels_content_fields,
\* deserialize_legacy_power_levels_content_fields: None is the Err
DeserializePowerLevelsContentFields(content, integer_power_levels) ==
  LET levels == UsersLevels(content, integer_power_levels)
      users_default == DeserializeField(content, "users_default", 0, integer_power_levels)
  IN  IF users_default = None \/ \E x \in DOMAIN levels : levels[x] = None
      THEN None
      ELSE Some([ users |-> VecDeserializePowerlevelValues(UsersEntries(content), levels),
                  users_default |-> Unwrap(users_default) ])

\* deserialize_power_levels_content_invite
DeserializePowerLevelsContentInvite(content, integer_power_levels) ==
  LET invite == DeserializeField(content, "invite", 0, integer_power_levels)
  IN  IF invite = None THEN None ELSE Some([ invite |-> Unwrap(invite) ])

\* deserialize_power_levels_content_redact
DeserializePowerLevelsContentRedact(content, integer_power_levels) ==
  LET redact == DeserializeField(content, "redact", DefaultPowerLevel, integer_power_levels)
  IN  IF redact = None THEN None ELSE Some([ redact |-> Unwrap(redact) ])

\* Ord::cmp of two user ids
Cmp(a, b) == IF a < b THEN "Less" ELSE IF a = b THEN "Equal" ELSE "Greater"

\* slice::binary_search_by, on the orderings its comparator gives for the
\* items: the loop halves the part [base, base + size) of the slice
RECURSIVE BinarySearchFrom(_, _, _)
BinarySearchFrom(cmps, base, size) ==
  IF size > 1
  THEN LET half == size \div 2
           mid == base + half
       IN  BinarySearchFrom(cmps, IF cmps[mid + 1] = "Greater" THEN base ELSE mid,
                            size - half)
  ELSE IF cmps[base + 1] = "Equal" THEN Some(base) ELSE None

\* Ok(idx) is Some(idx), counted from 0, and every Err is None
BinarySearchBy(cmps) == IF Len(cmps) = 0 THEN None ELSE BinarySearchFrom(cmps, 0, Len(cmps))

\* get_user_power whose comparator compares the other way round
GetUserPowerReversed(fields, user_id) ==
  LET idx == BinarySearchBy([ x \in DOMAIN fields.users |->
                                Cmp(user_id, fields.users[x][1]) ])
  IN  IF idx = None THEN None ELSE Some(fields.users[Unwrap(idx) + 1][2])

\* PowerLevelsContentFields::get_user_power
GetUserPower(fields, user_id) ==
  LET idx == BinarySearchBy([ x \in DOMAIN fields.users |->
                                Cmp(fields.users[x][1], user_id) ])
  IN  IF idx = None THEN None ELSE Some(fields.users[Unwrap(idx) + 1][2])

\* the level the authorization rules take for a user: the explicit one, or
\* users_default
UserPower(fields, user_id) ==
  IF GetUserPower(fields, user_id) = None
  THEN fields.users_default
  ELSE Unwrap(GetUserPower(fields, user_id))

\* contents without "users": some of the integer fields are there
ScalarContents ==
  { [ f \in ScalarFields \cup { "users" } |-> IF f = "users" THEN None ELSE sc[f] ] :
      sc \in { c \in [ ScalarFields -> { None } \cup { Some(r) : r \in RawLevels } ] :
                 Cardinality({ f \in ScalarFields : IsSome(c[f]) }) <= MaxPresent } }

\* the levels the entries of "users" are given
UserRawLevels == { IntRaw(0), IntRaw(100), StrRaw(<< 1, 0, 0 >>) }

\* the "users" objects: up to MaxUsersLen entries, in any order, a user id
\* possibly more than once
UsersObjects ==
  UNION { [ 1 .. n -> PlUsers \X UserRawLevels ] : n \in 0 .. MaxUsersLen }

\* contents with "users", and with or without "ban" and "users_default"
UsersContents ==
  { [ f \in ScalarFields \cup { "users" } |->
        IF f = "users" THEN Some(us)
        ELSE IF f = "ban" THEN ban
        ELSE IF f = "users_default" THEN ud
        ELSE None ] :
      us \in UsersObjects,
      ban \in { None, Some(StrRaw(<< 5, 0 >>)) },
      ud \in { None, Some(IntRaw(100)), Some(StrRaw(<< 10 >>)) } }

PowerRequests ==
  [ content : ScalarContents \cup UsersContents, integer_power_levels : BOOLEAN ]

\* a power-levels content has come in
InitPower ==
  /\ InitCall
  /\ IdleTasks
  /\ IdleOutlier
  /\ IdleLeave
  /\ IdleVerify
  /\ pl_req \in { Some(r) : r \in PowerRequests }
  /\ pl_result = None
  /\ IdleLogin
  /\ IdleDevice
  /\ IdleProxy
  /\ IdleMutex
  /\ IdleWatch

\* the authorization rules read the content: as a whole, and field by field
ReadPowerLevels ==
  /\ IsSome(pl_req)
  /\ pl_result = None
  /\ LET content == Unwrap(pl_req).content
         integer_power_levels == Unwrap(pl_req).integer_power_levels
         fields == DeserializePowerLevelsContentFields(content, integer_power_levels)
     IN  pl_result' =
           Some([ power_levels |-> DeserializePowerLevels(content, integer_power_levels),
                  fields |-> fields,
                  invite |-> DeserializePowerLevelsContentInvite(content, integer_power_levels),
                  redact |-> DeserializePowerLevelsContentRedact(content, integer_power_levels),
                  found |-> IF fields = None THEN << >>
                            ELSE [ u \in PlUsers |-> GetUserPower(Unwrap(fields), u) ],
                  power |-> IF fields = None THEN << >>
                            ELSE [ u \in PlUsers |-> UserPower(Unwrap(fields), u) ] ])
  /\ UNCHANGED << resolution, ratelimiter, clock, failures, beside_power, pl_req >>

NextPower == ReadPowerLevels

SpecPower == InitPower /\ [][NextPower]_vars

----------------------------------------------------------------------------
(* service/users: login tokens (m.login.token) *)

LocalUsers == 1 .. NumLocalUsers
LoginTokens == 1 .. NumLoginTokens
LoginTasks == 1 .. NumLoginTasks

\* config.login_token_ttl, in ticks of the clock
LoginTokenTtl == 1

\* Result<OwnedUserId>
LoginOk(user_id) == [ ok |-> TRUE, user_id |-> user_id, err |-> "" ]
LoginErr(err) == [ ok |-> FALSE, user_id |-> 0, err |-> err ]

\* Map::raw_put, Map::remove, Map::get (None is the Err)
RawPut(map, key, val) ==
  [ x \in DOMAIN map \cup { key } |-> IF x = key THEN val ELSE map[x] ]
Remove(map, key) == [ x \in DOMAIN map \ { key } |-> map[x] ]
Get(map, key) == IF key \in DOMAIN map THEN Some(map[key]) ELSE None

\* a login request that has not come in yet
NoLogin == [ pc |-> "idle", token |-> 0, value |-> None, result |-> None ]

\* the server runs, nobody has asked for a login token
InitLogin ==
  /\ InitCall
  /\ IdleTasks
  /\ IdleOutlier
  /\ IdleLeave
  /\ IdleVerify
  /\ IdlePower
  /\ logintoken_expiresatuserid = << >>
  /\ login_tasks = [ t \in LoginTasks |-> NoLogin ]
  /\ login_now = 0
  /\ login_issued = 0
  /\ IdleDevice
  /\ IdleProxy
  /\ IdleMutex
  /\ IdleWatch

\* create_login_token, with the random token the route generates: a new one
CreateLoginToken(user_id) ==
  /\ login_issued < NumLoginTokens
  /\ login_issued' = login_issued + 1
  /\ logintoken_expiresatuserid' =
       RawPut(logintoken_expiresatuserid, login_issued + 1,
              [ expires_at |-> login_now + LoginTokenTtl, user_id |-> user_id ])
  /\ UNCHANGED << resolution, ratelimiter, clock, failures, beside_login,
                  login_tasks, login_now >>

\* login_route, LoginInfo::Token: the token goes to find_from_login_token,
\* unless token login is switched off
LoginRouteToken(t, token, login_via_existing_session) ==
  /\ login_tasks[t].pc = "idle"
  /\ login_tasks' =
       [ login_tasks EXCEPT ![t] =
           IF login_via_existing_session
           THEN [ pc |-> "get", token |-> token, value |-> None, result |-> None ]
           ELSE [ pc |-> "done", token |-> token, value |-> None,
                  result |-> Some(LoginErr("Token login is not enabled.")) ] ]
  /\ UNCHANGED << resolution, ratelimiter, clock, failures, beside_login,
                  logintoken_expiresatuserid, login_now, login_issued >>

\* find_from_login_token up to the end of `get(token).await`
FindFromLoginTokenGet(t) ==
  /\ login_tasks[t].pc = "get"
  /\ LET value == Get(logintoken_expiresatuserid, login_tasks[t].token)
     IN  login_tasks' =
           [ login_tasks EXCEPT ![t] =
               IF value = None
               THEN [ @ EXCEPT !.pc = "done",
                               !.result = Some(LoginErr("Login token is unrecognised")) ]
               ELSE [ @ EXCEPT !.pc = "got", !.value = value ] ]
  /\ UNCHANGED << resolution, ratelimiter, clock, failures, beside_login,
                  logintoken_expiresatuserid, login_now, login_issued >>

\* find_from_login_token from there: the expiry check, the removal, the answer
FindFromLoginTokenRemove(t) ==
  /\ login_tasks[t].pc = "got"
  /\ logintoken_expiresatuserid' =
       Remove(logintoken_expiresatuserid, login_tasks[t].token)
  /\ login_tasks' =
       [ login_tasks EXCEPT ![t] =
           [ @ EXCEPT !.pc = "done",
                      !.result =
                        IF Unwrap(login_tasks[t].value).expires_at < login_now
                        THEN Some(LoginErr("Login token is expired"))
                        ELSE Some(LoginOk(Unwrap(login_tasks[t].value).user_id)) ] ]
  /\ UNCHANGED << resolution, ratelimiter, clock, failures, beside_login,
                  login_now, login_issued >>

\* time passes
LoginTick ==
  /\ login_now < MaxLoginTicks
  /\ login_now' = login_now + 1
  /\ UNCHANGED << resolution, ratelimiter, clock, failures, beside_login,
                  logintoken_expiresatuserid, login_tasks, login_issued >>

NextLogin ==
  \/ \E user_id \in LocalUsers : CreateLoginToken(user_id)
  \/ \E t \in LoginTasks, token \in LoginTokens, enabled \in BOOLEAN :
       LoginRouteToken(t, token, enabled)
  \/ \E t \in LoginTasks : FindFromLoginTokenGet(t)
  \/ \E t \in LoginTasks : FindFromLoginTokenRemove(t)
  \/ LoginTick

SpecLogin == InitLogin /\ [][NextLogin]_vars

----------------------------------------------------------------------------
(* service/users: devices and their access tokens *)

Devices == 1 .. NumDevices
\* the access tokens utils::random_string(TOKEN_LENGTH) gives: the n-th call
\* gives the token n, a token no earlier call gave
AccessTokens == 1 .. MaxTokens

\* exists(user_id)
Exists(user_id) == user_id \in LocalUsers

\* set_token that leaves the old token in token_userdeviceid
OldTokenKept(tokens, by_device, key) == tokens

\* set_token, "Remove old token"
OldTokenRemoved(tokens, by_device, key) ==
  IF key \in DOMAIN by_device THEN Remove(tokens, by_device[key]) ELSE tokens

\* set_token for a device that has metadata: what it does to the two maps
SetTokenMaps(key, token) ==
  /\ userdeviceid_token' = RawPut(userdeviceid_token, key, token)
  /\ token_userdeviceid' =
       RawPut(OldTokenRemoved(token_userdeviceid, userdeviceid_token, key), token, key)
  /\ current_token' = RawPut(current_token, key, token)

\* create_device, with a token generated for it; for a user that does not
\* exist it returns Err and does nothing
CreateDevice(user_id, device_id) ==
  /\ Exists(user_id)
  /\ tokens_issued < MaxTokens
  /\ tokens_issued' = tokens_issued + 1
  /\ userdeviceid_metadata' = userdeviceid_metadata \cup { << user_id, device_id >> }
  /\ SetTokenMaps(<< user_id, device_id >>, tokens_issued + 1)
  /\ UNCHANGED << resolution, ratelimiter, clock, failures, beside_device >>

\* set_token, with a token generated for it; for a device without metadata
\* it returns Err and does nothing
SetToken(user_id, device_id) ==
  /\ << user_id, device_id >> \in userdeviceid_metadata
  /\ tokens_issued < MaxTokens
  /\ tokens_issued' = tokens_issued + 1
  /\ SetTokenMaps(<< user_id, device_id >>, tokens_issued + 1)
  /\ UNCHANGED << resolution, ratelimiter, clock, failures, beside_device,
                  userdeviceid_metadata >>

\* remove_device: what it does to the maps, for the devices in keys
RemoveDevices(keys) ==
  /\ userdeviceid_token' =
       [ x \in DOMAIN userdeviceid_token \ keys |-> userdeviceid_token[x] ]
  /\ token_userdeviceid' =
       [ x \in DOMAIN token_userdeviceid \
               { userdeviceid_token[key] : key \in keys \cap DOMAIN userdeviceid_token } |->
           token_userdeviceid[x] ]
  /\ userdeviceid_metadata' = userdeviceid_metadata \ keys
  /\ current_token' = [ x \in DOMAIN current_token \ keys |-> current_token[x] ]

\* remove_device, as logout_route calls it
RemoveDevice(user_id, device_id) ==
  /\ << user_id, device_id >> \in userdeviceid_metadata
  /\ RemoveDevices({ << user_id, device_id >> })
  /\ UNCHANGED << resolution, ratelimiter, clock, failures, beside_device, tokens_issued >>

\* logout_all_route, deactivate_account: remove_device for all_device_ids
RemoveAllDevices(user_id) ==
  /\ \E device_id \in Devices : << user_id, device_id >> \in userdeviceid_metadata
  /\ RemoveDevices({ key \in userdeviceid_metadata : key[1] = user_id })
  /\ UNCHANGED << resolution, ratelimiter, clock, failures, beside_device, tokens_issued >>

\* find_from_token: None is the Err
FindFromToken(token) == Get(token_userdeviceid, token)

\* the server runs, nobody has logged in
InitDevice ==
  /\ InitCall
  /\ IdleTasks
  /\ IdleOutlier
  /\ IdleLeave
  /\ IdleVerify
  /\ IdlePower
  /\ IdleLogin
  /\ IdleDevice
  /\ IdleProxy
  /\ IdleMutex
  /\ IdleWatch

NextDevice ==
  \/ \E user_id \in LocalUsers, device_id \in Devices : CreateDevice(user_id, device_id)
  \/ \E user_id \in LocalUsers, device_id \in Devices : SetToken(user_id, device_id)
  \/ \E user_id \in LocalUsers, device_id \in Devices : RemoveDevice(user_id, device_id)
  \/ \E user_id \in LocalUsers : RemoveAllDevices(user_id)

SpecDevice == InitDevice /\ [][NextDevice]_vars

----------------------------------------------------------------------------
(* core/config/proxy *)

\* strings are sequences of characters
StartsWith(s, p) == Len(s) >= Len(p) /\ SubSeq(s, 1, Len(p)) = p
EndsWith(s, p) == Len(s) >= Len(p) /\ SubSeq(s, Len(s) - Len(p) + 1, Len(s)) = p

\* enum WildCardedDomain
WildCard == [ kind |-> "WildCard", d |-> << >> ]
WildCarded(d) == [ kind |-> "WildCarded", d |-> d ]
Exact(d) == [ kind |-> "Exact", d |-> d ]

\* WildCardedDomain::from_str
FromStr(s) ==
  IF StartsWith(s, << "*", "." >>) THEN WildCarded(Tail(s))
  ELSE IF s = << "*" >> THEN WildCarded(<< >>)
  ELSE Exact(s)

\* WildCardedDomain::matches
Matches(wc, domain) ==
  CASE wc.kind = "WildCard" -> TRUE
    [] wc.kind = "WildCarded" -> EndsWith(domain, wc.d)
    [] wc.kind = "Exact" -> domain = wc.d

\* more_specific_than that never says yes
MoreSpecificThanNever(a, b) == FALSE

\* WildCardedDomain::more_specific_than
MoreSpecificThan(a, b) ==
  CASE a.kind = "WildCard" /\ b.kind = "WildCard" -> FALSE
    [] a.kind # "WildCard" /\ b.kind = "WildCard" -> TRUE
    [] a.kind = "Exact" /\ b.kind = "WildCarded" -> Matches(b, a.d)
    [] a.kind = "WildCarded" /\ b.kind = "WildCarded" -> a.d # b.d /\ EndsWith(a.d, b.d)
    [] OTHER -> FALSE

\* for_url, one of its two loops: because is the most specific matching rule
\* among the first n, if any
RECURSIVE Because(_, _, _, _)
Because(rules, domain, start, n) ==
  IF n = 0 THEN start
  ELSE LET prev == Because(rules, domain, start, n - 1)
       IN  IF Matches(rules[n], domain)
           THEN IF IsSome(prev) /\ ~ MoreSpecificThan(rules[n], Unwrap(prev))
                THEN prev
                ELSE Some(rules[n])
           ELSE prev

\* PartialProxyConfig::for_url; domain is url.domain(), None is the None
ForUrl(self, domain) ==
  IF domain = None THEN None
  ELSE LET included_because ==
             Because(self.include, Unwrap(domain),
                     IF self.include = << >> THEN Some(WildCard) ELSE None,
                     Len(self.include))
           excluded_because ==
             Because(self.exclude, Unwrap(domain), None, Len(self.exclude))
       IN  IF IsSome(included_because) /\ IsSome(excluded_because)
              /\ MoreSpecificThan(Unwrap(included_because), Unwrap(excluded_because))
           THEN Some(self.url)
           ELSE IF IsSome(included_because) /\ excluded_because = None
           THEN Some(self.url)
           ELSE None

\* PartialProxyConfig as Deserialize: every rule goes through from_str
DeserializeProxy(config) ==
  [ url |-> config.url,
    include |-> [ x \in DOMAIN config.include |-> FromStr(config.include[x]) ],
    exclude |-> [ x \in DOMAIN config.exclude |-> FromStr(config.exclude[x]) ] ]

\* the domains of the urls: up to MaxLabels labels "a" or "b"
RECURSIVE DomainsOf(_)
DomainsOf(n) ==
  IF n = 1 THEN { << "a" >>, << "b" >> }
  ELSE DomainsOf(n - 1) \cup
       { << l, "." >> \o d : l \in { "a", "b" }, d \in DomainsOf(n - 1) }
Domains == DomainsOf(MaxLabels)

\* the rules of the configuration file
Rules ==
  { << "*" >>, << "*", ".", "b" >>, << "*", ".", "a", ".", "b" >>, << "*", ".", "a" >>,
    << "a", ".", "a", ".", "b" >> }
RuleLists == UNION { [ 1 .. n -> Rules ] : n \in 0 .. MaxRules }

\* what url.domain() gives: None for a url whose host is an address
UrlDomains == { None } \cup { Some(d) : d \in Domains }

ProxyRequest(include, exclude, domain) ==
  [ config |-> [ url |-> "socks5h://localhost:9050", include |-> include,
                 exclude |-> exclude ],
    domain |-> domain ]

\* a request is about to be sent to a url
InitProxy ==
  /\ InitCall
  /\ IdleTasks
  /\ IdleOutlier
  /\ IdleLeave
  /\ IdleVerify
  /\ IdlePower
  /\ IdleLogin
  /\ IdleDevice
  /\ \E include \in RuleLists, exclude \in RuleLists, domain \in UrlDomains :
       proxy_req = Some(ProxyRequest(include, exclude, domain))
  /\ proxy_result = None
  /\ IdleMutex
  /\ IdleWatch

\* ProxyConfig::to_proxy, ByDomain: the proxy is asked for the url
ProxyForUrl ==
  /\ IsSome(proxy_req)
  /\ proxy_result = None
  /\ proxy_result' =
       Some(ForUrl(DeserializeProxy(Unwrap(proxy_req).config), Unwrap(proxy_req).domain))
  /\ UNCHANGED << resolution, ratelimiter, clock, failures, beside_proxy, proxy_req >>

NextProxy == ProxyForUrl

SpecProxy == InitProxy /\ [][NextProxy]_vars

----------------------------------------------------------------------------
(* api/server/send_leave: create_leave_event from the room's mutex on *)

\* the send_leave requests that are handled side by side
LeaveTasks == 1 .. NumLeaveTasks

\* a request that has not come in
NoLeave == [ pc |-> "idle", room_id |-> 0, admit |-> "", ok |-> FALSE ]

\* mutex_federation.lock(room_id) can return: nobody holds the room's mutex
MutexFree(room_id) == mutex_federation[room_id] = None

\* dropping the guard, by drop(mutex_lock) or by leaving the function
Unlocked(room_id) == [ mutex_federation EXCEPT ![room_id] = None ]

\* the server runs, no send_leave request has come in
InitMutex ==
  /\ InitCall
  /\ IdleTasks
  /\ IdleOutlier
  /\ IdleLeave
  /\ IdleVerify
  /\ IdlePower
  /\ IdleLogin
  /\ IdleDevice
  /\ IdleProxy
  /\ mutex_federation = [ r \in Rooms |-> None ]
  /\ leave_tasks = [ t \in LeaveTasks |-> NoLeave ]
  /\ IdleWatch

\* a request for the room has passed the checks of create_leave_event
LeaveChecked(t, room_id) ==
  /\ leave_tasks[t].pc = "idle"
  /\ leave_tasks' = [ leave_tasks EXCEPT ![t] = [ @ EXCEPT !.pc = "lock", !.room_id = room_id ] ]
  /\ UNCHANGED << resolution, ratelimiter, clock, failures, beside_mutex, mutex_federation >>

\* mutex_federation.lock(room_id).await returns the guard
LeaveLock(t) ==
  /\ leave_tasks[t].pc = "lock"
  /\ MutexFree(leave_tasks[t].room_id)
  /\ mutex_federation' = [ mutex_federation EXCEPT ![leave_tasks[t].room_id] = Some(t) ]
  /\ leave_tasks' = [ leave_tasks EXCEPT ![t] = [ @ EXCEPT !.pc = "admit" ] ]
  /\ UNCHANGED << resolution, ratelimiter, clock, failures, beside_mutex >>

\* an error return that leaves the room's mutex locked
LeaveAdmitErrHolding(t, admit) ==
  /\ leave_tasks[t].pc = "admit"
  /\ leave_tasks' = [ leave_tasks EXCEPT ![t] = [ @ EXCEPT !.pc = "done", !.admit = admit ] ]
  /\ UNCHANGED << resolution, ratelimiter, clock, failures, beside_mutex, mutex_federation >>

\* handle_incoming_pdu returns Err or Ok(None): the function returns the
\* error, and the guard is dropped with it
LeaveAdmitErr(t, admit) ==
  /\ leave_tasks[t].pc = "admit"
  /\ mutex_federation' = Unlocked(leave_tasks[t].room_id)
  /\ leave_tasks' = [ leave_tasks EXCEPT ![t] = [ @ EXCEPT !.pc = "done", !.admit = admit ] ]
  /\ UNCHANGED << resolution, ratelimiter, clock, failures, beside_mutex >>

\* handle_incoming_pdu returns Ok(Some(pdu_id)); drop(mutex_lock)
LeaveAdmitOk(t) ==
  /\ leave_tasks[t].pc = "admit"
  /\ mutex_federation' = Unlocked(leave_tasks[t].room_id)
  /\ leave_tasks' = [ leave_tasks EXCEPT ![t] = [ @ EXCEPT !.pc = "send", !.admit = "some" ] ]
  /\ UNCHANGED << resolution, ratelimiter, clock, failures, beside_mutex >>

\* send_pdu_room returns, and its result is the result of the request
LeaveSend(t, ok) ==
  /\ leave_tasks[t].pc = "send"
  /\ leave_tasks' = [ leave_tasks EXCEPT ![t] = [ @ EXCEPT !.pc = "done", !.ok = ok ] ]
  /\ UNCHANGED << resolution, ratelimiter, clock, failures, beside_mutex, mutex_federation >>

NextMutex ==
  \/ \E t \in LeaveTasks, room_id \in Rooms : LeaveChecked(t, room_id)
  \/ \E t \in LeaveTasks : LeaveLock(t)
  \/ \E t \in LeaveTasks, admit \in { "err", "none" } : LeaveAdmitErr(t, admit)
  \/ \E t \in LeaveTasks : LeaveAdmitOk(t)
  \/ \E t \in LeaveTasks, ok \in BOOLEAN : LeaveSend(t, ok)

SpecMutex == InitMutex /\ [][NextMutex]_vars

----------------------------------------------------------------------------
(* database: Watchers.  watch and wake run on different threads; what a   *)
(* call does while it holds the lock of the map is one step.              *)

Bytes == 1 .. NumBytes
\* the byte strings that are keys and prefixes
ByteStrings == UNION { [ 1 .. n -> Bytes ] : n \in 0 .. MaxKeyLen }
WatchTasks == 1 .. NumWatchTasks
WakeTasks == 1 .. NumWakeTasks

NoWatch == [ pc |-> "idle", prefix |-> << >>, chan |-> 0, seen |-> 0 ]
NoWake ==
  [ pc |-> "idle", key |-> << >>, triggered |-> << >>, before |-> { }, removed |-> { } ]

\* watch::channel(()): the version its receivers start from, the sender alive
InitialVersion == 0
NewChannel == [ version |-> InitialVersion, open |-> TRUE ]

\* the receivers an entry of the map holds: the rx.clone() of (tx, rx.clone())
EntryReceivers == 1

\* the receivers of a channel that pending futures hold
FutureReceivers(c) ==
  Cardinality({ w \in WatchTasks : watch_tasks[w].pc = "pending" /\ watch_tasks[w].chan = c })

\* key[..length]
Slice(key, length) == SubSeq(key, 1, length)

\* a server without watchers
InitWatch ==
  /\ InitCall
  /\ IdleTasks
  /\ IdleOutlier
  /\ IdleLeave
  /\ IdleVerify
  /\ IdlePower
  /\ IdleLogin
  /\ IdleDevice
  /\ IdleProxy
  /\ IdleMutex
  /\ watchers = << >>
  /\ channels = << >>
  /\ watch_tasks = [ w \in WatchTasks |-> NoWatch ]
  /\ wake_tasks = [ t \in WakeTasks |-> NoWake ]
  /\ send_failed = FALSE

\* the future watch returns: it holds a receiver of the channel
Pending(prefix, chan) ==
  [ pc |-> "pending", prefix |-> prefix, chan |-> chan, seen |-> InitialVersion ]

\* Watch that inserts a new channel whether or not the prefix has an entry
WatchAlwaysInserts(w, prefix) ==
  /\ watch_tasks[w].pc = "idle"
  /\ channels' = Append(channels, NewChannel)
  /\ watchers' = [ p \in DOMAIN watchers \cup { prefix } |->
                     IF p = prefix THEN Len(channels) + 1 ELSE watchers[p] ]
  /\ watch_tasks' = [ watch_tasks EXCEPT ![w] = Pending(prefix, Len(channels) + 1) ]
  /\ UNCHANGED << resolution, ratelimiter, clock, failures, beside_watch, wake_tasks,
                  send_failed >>

\* Watchers::watch(prefix): under the write lock, the receiver of the entry
\* is cloned (Occupied) or a channel is made and inserted (Vacant)
Watch(w, prefix) ==
  /\ watch_tasks[w].pc = "idle"
  /\ IF prefix \in DOMAIN watchers
     THEN /\ watch_tasks' = [ watch_tasks EXCEPT ![w] = Pending(prefix, watchers[prefix]) ]
          /\ UNCHANGED << watchers, channels >>
     ELSE /\ channels' = Append(channels, NewChannel)
          /\ watchers' = [ p \in DOMAIN watchers \cup { prefix } |->
                             IF p = prefix THEN Len(channels) + 1 ELSE watchers[p] ]
          /\ watch_tasks' = [ watch_tasks EXCEPT ![w] = Pending(prefix, Len(channels) + 1) ]
  /\ UNCHANGED << resolution, ratelimiter, clock, failures, beside_watch, wake_tasks,
                  send_failed >>

\* rx.changed().await returns Ok: the version is not the one the receiver saw
Changed(w) ==
  /\ watch_tasks[w].pc = "pending"
  /\ channels[watch_tasks[w].chan].version # watch_tasks[w].seen
  /\ watch_tasks' = [ watch_tasks EXCEPT ![w].pc = "woken" ]
  /\ UNCHANGED << resolution, ratelimiter, clock, failures, beside_watch, watchers,
                  channels, wake_tasks, send_failed >>

\* the caller drops the future before it is woken, and its receiver with it
DropFuture(w) ==
  /\ watch_tasks[w].pc = "pending"
  /\ watch_tasks' = [ watch_tasks EXCEPT ![w].pc = "dropped" ]
  /\ UNCHANGED << resolution, ratelimiter, clock, failures, beside_watch, watchers,
                  channels, wake_tasks, send_failed >>

\* the watch calls that have returned with a prefix of key
RegisteredOn(key) ==
  { w \in WatchTasks :
      /\ watch_tasks[w].pc # "idle"
      /\ Len(watch_tasks[w].prefix) <= Len(key)
      /\ watch_tasks[w].prefix = Slice(key, Len(watch_tasks[w].prefix)) }

\* Watchers::wake(key) is called
WakeStart(t, key) ==
  /\ wake_tasks[t].pc = "idle"
  /\ wake_tasks' = [ wake_tasks EXCEPT ![t] =
                       [ NoWake EXCEPT !.pc = "read", !.key = key,
                                       !.before = RegisteredOn(key) ] ]
  /\ UNCHANGED << resolution, ratelimiter, clock, failures, beside_watch, watchers,
                  channels, watch_tasks, send_failed >>

\* for length in from..=key.len(): the slices of key that are in the map
RECURSIVE TriggeredFrom(_, _)
TriggeredFrom(key, from) ==
  IF from > Len(key) THEN << >>
  ELSE IF Slice(key, from) \in DOMAIN watchers
       THEN << Slice(key, from) >> \o TriggeredFrom(key, from + 1)
       ELSE TriggeredFrom(key, from + 1)

\* Triggered that begins at the first byte and leaves the empty prefix out
TriggeredNonEmpty(key) == TriggeredFrom(key, 1)

\* for length in 0..=key.len()
Triggered(key) == TriggeredFrom(key, 0)

\* wake: under the read lock the triggered prefixes are collected
WakeRead(t) ==
  /\ wake_tasks[t].pc = "read"
  /\ LET triggered == Triggered(wake_tasks[t].key)
     IN  wake_tasks' = [ wake_tasks EXCEPT ![t].triggered = triggered,
                           ![t].pc = IF triggered = << >> THEN "done" ELSE "write" ]
  /\ UNCHANGED << resolution, ratelimiter, clock, failures, beside_watch, watchers,
                  channels, watch_tasks, send_failed >>

\* tx.0.send(()) of a removed entry: Err if the channel has no receiver; the
\* entry is dropped afterwards, and its sender with it
Send(map, chans, failed, removed, prefix) ==
  LET c == map[prefix]
  IN  [ watchers |-> [ p \in DOMAIN map \ { prefix } |-> map[p] ],
        channels |-> [ chans EXCEPT ![c] = [ version |-> @.version + 1, open |-> FALSE ] ],
        failed |-> failed \/ EntryReceivers + FutureReceivers(c) = 0,
        removed |-> removed \cup { prefix } ]

\* for prefix in triggered { if let Some(tx) = watchers.remove(prefix) { send } }
RECURSIVE RemoveAndSend(_, _, _, _, _)
RemoveAndSend(map, chans, failed, removed, triggered) ==
  IF triggered = << >>
  THEN [ watchers |-> map, channels |-> chans, failed |-> failed, removed |-> removed ]
  ELSE IF Head(triggered) \in DOMAIN map
       THEN LET sent == Send(map, chans, failed, removed, Head(triggered))
            IN  RemoveAndSend(sent.watchers, sent.channels, sent.failed, sent.removed,
                              Tail(triggered))
       ELSE RemoveAndSend(map, chans, failed, removed, Tail(triggered))

\* wake: under the write lock the triggered entries are removed and sent to
WakeWrite(t) ==
  /\ wake_tasks[t].pc = "write"
  /\ LET after == RemoveAndSend(watchers, channels, send_failed, { },
                                wake_tasks[t].triggered)
     IN  /\ watchers' = after.watchers
         /\ channels' = after.channels
         /\ send_failed' = after.failed
         /\ wake_tasks' = [ wake_tasks EXCEPT ![t].pc = "done",
                                              ![t].removed = after.removed ]
  /\ UNCHANGED << resolution, ratelimiter, clock, failures, beside_watch, watch_tasks >>

NextWatch ==
  \/ \E w \in WatchTasks, prefix \in ByteStrings : Watch(w, prefix)
  \/ \E w \in WatchTasks : Changed(w)
  \/ \E w \in WatchTasks : DropFuture(w)
  \/ \E t \in WakeTasks, key \in ByteStrings : WakeStart(t, key)
  \/ \E t \in WakeTasks : WakeRead(t)
  \/ \E t \in WakeTasks : WakeWrite(t)

SpecWatch == InitWatch /\ [][NextWatch]_vars

----------------------------------------------------------------------------
(* Properties *)

\* the requested ids the local lookup found
LocalHits == { p \in DOMAIN ewa : IsSome(ewa[p].local_pdu) }

\* the ids federation requests of the running call were sent for
Requested == { netlog[n].id : n \in DOMAIN netlog }

\* C1: for every requested id the local lookup (timeline, then outlier store)
\* finds, no federation request is sent for that id during the call, and the
\* call returns the local copy for it, with no json.
C1_LocalHitNoNetwork ==
  \A p \in LocalHits :
    /\ ewa[p].id \notin Requested
    /\ Unwrap(ewa[p].local_pdu).event_id = ewa[p].id
    /\ pc = "done" =>
         \E q \in DOMAIN pdus :
           pdus[q] = [ pdu |-> Unwrap(ewa[p].local_pdu), json |-> None ]

\* a call has returned a local hit for an id that a fetched event (content 1,
\* whose auth_events name 2 and 3) refers to
C1_Witness ==
  /\ pc = "done"
  /\ \E p \in LocalHits, q \in DOMAIN ewa :
       /\ ewa[p].id = 3
       /\ ewa[q].fetched # << >>
       /\ ewa[q].fetched[1].value.calculated_event_id = 1
  /\ Requested # { }

\* the window a registry entry was in when a request was sent at time t
InFetchWindow(entry, t) ==
  /\ IsSome(entry)
  /\ ContinueExponentialBackoffSecs(FETCH_MIN_DURATION, FETCH_MAX_DURATION,
                                    t - Unwrap(entry).time, Unwrap(entry).tries)

\* C2: the fetch loop sends no federation request for an id whose registry
\* entry is still inside its backoff window, and every event the call
\* returns with its json stems from a request that was sent, so an id that
\* was only skipped is not in the result.
C2_BackedOffNotFetched ==
  /\ \A n \in DOMAIN netlog : ~ InFetchWindow(netlog[n].entry, netlog[n].time)
  /\ \A q \in DOMAIN pdus :
       IsSome(pdus[q].json) =>
         \E n \in DOMAIN netlog :
           /\ netlog[n].id = pdus[q].pdu.event_id
           /\ netlog[n].outcome = "ok"

\* a call for id 2 alone has returned nothing and sent nothing, because 2
\* failed twice and time has passed, but less than the window
C2_Witness ==
  /\ pc = "done"
  /\ events = << 2 >>
  /\ FetchBackoff(2)
  /\ ratelimiter[2].tries = 2
  /\ now > ratelimiter[2].time
  /\ netlog = << >>
  /\ pdus = << >>

\* min(max_window, min_window * 2^n)
Window(min_window, max_window, n) == Min(max_window, min_window * 2 ^ n)

\* C3: after N consecutive recorded failures for an id, the last at time t_N,
\* the backoff check made at t_N + D says skip if and only if
\* D < min(max_window, min_window * 2^N), for the fetch loop's windows and for
\* the validation loop's (N below the saturation of the counter).
C3_SkipIffInsideWindow ==
  \A id \in Ids :
    LET n == failures[id].count
        d == now - failures[id].last
    IN n \in 1 .. TriesMax =>
         /\ FetchBackoff(id) <=>
              d < Window(FETCH_MIN_DURATION, FETCH_MAX_DURATION, n)
         /\ ValidateBackoff(id) <=>
              d < Window(VALIDATE_MIN_DURATION, VALIDATE_MAX_DURATION, n)

\* eight failures, and the fetch loop's longest window has just elapsed: the
\* fetch loop's check lets the id through, the validation loop's does not
C3_Witness ==
  /\ failures[1].count = 8
  /\ now - failures[1].last = FETCH_MAX_DURATION
  /\ ~ FetchBackoff(1)
  /\ ValidateBackoff(1)

\* the fetch loop is at id: it has popped it, or is about to
AtHead(id) == pc = "fetch" /\ todo # << >> /\ Head(todo) = id

\* the short window after two failures
SecondWindow == Window(FETCH_MIN_DURATION, FETCH_MAX_DURATION, 2)

\* C4: once the fetch of an id has failed twice, an attempt made within the
\* short backoff window sends no request for it, and an attempt made once the
\* window has elapsed (for an id not local and not fetched in this pass) does
\* send the third request.
C4_ThirdAttempt ==
  /\ \A id \in Ids :
       failures[id].count = 2 =>
         LET d == now - failures[id].last
         IN /\ (AtHead(id) /\ d < SecondWindow) => ~ SendsRequest
            /\ (AtHead(id) /\ d >= SecondWindow /\ id \notin seen /\ ~ PduExists(id))
                 => SendsRequest
  /\ \A n \in DOMAIN netlog :
       (IsSome(netlog[n].entry) /\ Unwrap(netlog[n].entry).tries = 2)
         => netlog[n].time - Unwrap(netlog[n].entry).time >= SecondWindow

\* a call for id 1 has sent the third request for its auth event 2, whose
\* first two fetches failed
C4_Witness ==
  /\ events = << 1 >>
  /\ \E n \in DOMAIN netlog :
       /\ netlog[n].id = 2
       /\ IsSome(netlog[n].entry)
       /\ Unwrap(netlog[n].entry).tries = 2
       /\ failures[2].count >= 2

\* C5: when the canonicalized id of a fetched event differs from the id that
\* was requested, the event is handed to the Event Admitter under its
\* canonicalized id.
C5_AdmittedUnderCalculatedId ==
  \A h \in DOMAIN handled :
    handled[h].outcome # "skip" => handled[h].admitted_as = handled[h].content

\* the second loop's step h admitted the requested id of its entry: the id is
\* reported resolved
Resolved(h) ==
  /\ handled[h].outcome = "ok"
  /\ handled[h].id = ewa[handled[h].pos].id

\* the other events fetched for the entry of step h
Ancestors(h) ==
  { a \in Range(ewa[handled[h].pos].fetched) : a.id # handled[h].id }

\* the second loop dealt with ancestor a of step h before step h
HandledBefore(a, h) ==
  { g \in 1 .. h - 1 : handled[g].pos = handled[h].pos /\ handled[g].id = a.id }

RaisedTries(entry) ==
  IF IsSome(entry) THEN SaturatingAdd(Unwrap(entry).tries, 1) ELSE 1

\* a failure recorded at time t for an id whose entry was `entry` is in the
\* registry
Recorded(id, entry, t) ==
  /\ id \in DOMAIN ratelimiter
  /\ ratelimiter[id].time >= t
  /\ ratelimiter[id].tries >= RaisedTries(entry)

\* the entries of the result that carry their json
Fetched == { q \in DOMAIN pdus : IsSome(pdus[q].json) }

\* C7: when handle_outlier_pdu fails for a fetched event, a failure is
\* recorded in the registry for its id and nothing is pushed to the result
\* for it, and the loop goes on: every other fetched event of the chain and
\* of the other requested ids has its turn, and is handed to the admitter
\* unless its own backoff window holds it back.
C7_ValidationFailureIsolated ==
  /\ \A h \in DOMAIN handled :
       /\ handled[h].outcome = "error" =>
            Recorded(handled[h].id, handled[h].entry, handled[h].time)
       /\ handled[h].outcome = "skip" =>
            /\ IsSome(handled[h].entry)
            /\ ContinueExponentialBackoffSecs(
                 VALIDATE_MIN_DURATION, VALIDATE_MAX_DURATION,
                 handled[h].time - Unwrap(handled[h].entry).time,
                 Unwrap(handled[h].entry).tries)
  /\ Cardinality(Fetched) = Cardinality({ h \in DOMAIN handled : Resolved(h) })
  /\ pc = "done" =>
       \A p \in DOMAIN ewa : \A x \in DOMAIN ewa[p].fetched :
         \E h \in DOMAIN handled :
           handled[h].pos = p /\ handled[h].id = ewa[p].fetched[x].id

\* a call has returned after the admitter rejected an event of the first
\* requested id and then accepted the second requested id
C7_Witness ==
  /\ pc = "done"
  /\ \E g, h \in DOMAIN handled :
       /\ g < h
       /\ handled[g].outcome = "error"
       /\ handled[g].pos # handled[h].pos
       /\ Resolved(h)
       /\ Cardinality(Fetched) = 1

\* the events the first loop has fetched and kept
RECURSIVE KeptUpTo(_)
KeptUpTo(p) == IF p = 0 THEN 0 ELSE KeptUpTo(p - 1) + Len(ewa[p].fetched)

Kept == Len(rev) + KeptUpTo(Len(ewa))

\* C8: a federation fetch error, an undeterminable room version or a
\* canonicalization error for one chain member records a failure for its id
\* and keeps nothing for it; the call goes on in every case, gives every
\* requested id its entry and returns.
C8_FetchFailureIsolated ==
  /\ \A n \in DOMAIN netlog :
       netlog[n].outcome # "ok" =>
         Recorded(netlog[n].id, netlog[n].entry, netlog[n].time)
  /\ Kept = Cardinality({ n \in DOMAIN netlog : netlog[n].outcome = "ok" })
  /\ pc \in { "lookup", "fetch", "validate", "admit" } => ENABLED Resolve
  /\ pc = "done" =>
       /\ Len(ewa) = Len(events)
       /\ \A p \in DOMAIN ewa : ewa[p].id = events[p]

\* a call has returned the second requested id although the fetch of the
\* first one failed
C8_Witness ==
  /\ pc = "done"
  /\ Len(events) = 2
  /\ \E n \in DOMAIN netlog :
       /\ netlog[n].id = events[1]
       /\ netlog[n].outcome = "error"
  /\ Len(pdus) = 1
  /\ pdus[1].pdu.event_id = events[2]
  /\ events[1] # events[2]
  /\ IsSome(pdus[1].json)

\* C9: every event of the result carries the id of a requested id, and one
\* that was fetched is the object fetched for that requested id itself; an
\* event fetched as an auth ancestor is handed to the admitter and pushes
\* nothing.
C9_OnlyRequestedReturned ==
  /\ \A q \in DOMAIN pdus :
       /\ pdus[q].pdu.event_id \in Range(events)
       /\ IsSome(pdus[q].json) =>
            \E p \in DOMAIN ewa :
              /\ ewa[p].id = pdus[q].pdu.event_id
              /\ ewa[p].fetched # << >>
              /\ ewa[p].fetched[1].id = ewa[p].id
              /\ ewa[p].fetched[1].value = Unwrap(pdus[q].json)
  /\ Len(pdus) = Cardinality(LocalHits \cap 1 .. (IF pc = "validate" THEN j - 1 ELSE j))
                   + Cardinality({ h \in DOMAIN handled : Resolved(h) })

\* a call has returned its requested id after the admitter accepted an auth
\* ancestor that was not requested
C9_Witness ==
  /\ pc = "done"
  /\ pdus # << >>
  /\ \E h \in DOMAIN handled :
       /\ handled[h].outcome = "ok"
       /\ handled[h].id # ewa[handled[h].pos].id
       /\ handled[h].id \notin Range(events)

\* what the call returns for its p-th requested id
ResultFor(p) ==
  IF IsSome(ewa[p].local_pdu)
  THEN << [ pdu |-> Unwrap(ewa[p].local_pdu), json |-> None ] >>
  ELSE IF \E h \in DOMAIN handled : handled[h].pos = p /\ Resolved(h)
       THEN << [ pdu |-> PduEvent(ewa[p].id, ewa[p].fetched[1].value),
                 json |-> Some(ewa[p].fetched[1].value) ] >>
       ELSE << >>

RECURSIVE ResultUpTo(_)
ResultUpTo(p) == IF p = 0 THEN << >> ELSE ResultUpTo(p - 1) \o ResultFor(p)

\* C10: the returned value holds, for each requested id in turn, (event, None)
\* if the id was found locally, (event, Some(canonical json)) if it was
\* fetched and the admitter accepted it, and nothing otherwise.
C10_ResultShape ==
  pc = "done" => pdus = ResultUpTo(Len(ewa))

\* a call for two ids has returned one of them with its json and has no entry
\* for the other, whose fetch failed
C10_Witness ==
  /\ pc = "done"
  /\ Len(events) = 2
  /\ Len(pdus) = 1
  /\ IsSome(pdus[1].json)
  /\ \E p \in DOMAIN ewa :
       ~ IsSome(ewa[p].local_pdu) /\ ewa[p].fetched = << >>

\* every event fetched so far is the event that was asked for
HonestOrigin ==
  /\ \A x \in DOMAIN rev : rev[x].value.calculated_event_id = rev[x].id
  /\ \A p \in DOMAIN ewa : \A x \in DOMAIN ewa[p].fetched :
       ewa[p].fetched[x].value.calculated_event_id = ewa[p].fetched[x].id

\* The scenario: the first call, for E1 = 1 alone, whose auth_events name
\* A2 = 2 (not local) and A1 = 3 (local); A2 names A3 = 3 (local) and an entry
\* that is no event id.  Every request succeeds and the admitter accepts.
ScenarioE1Running ==
  /\ calls = 1
  /\ events = << 1 >>
  /\ HonestOrigin
  /\ \A n \in DOMAIN netlog : netlog[n].outcome = "ok"
  /\ \A h \in DOMAIN handled : handled[h].outcome = "ok"

ScenarioE1 == ScenarioE1Running /\ pc = "done"

\* the ids of the federation requests of the running call, in order
RequestedIds == [ n \in DOMAIN netlog |-> netlog[n].id ]

\* C11, as claimed: in the scenario the resolver makes exactly one network
\* call, returns E1 resolved, and A2 is in the outlier store.
C11_OneNetworkCall ==
  ScenarioE1 =>
    /\ Len(netlog) = 1
    /\ Len(pdus) = 1 /\ pdus[1].pdu.event_id = 1
    /\ 2 \in DOMAIN outliers

\* C11, amended: in the scenario, with E1 not local, the resolver makes
\* exactly two network calls, for E1 and then for A2, and none for A1 and A3;
\* it returns E1 resolved with its json, and A2 is handed to the admitter and
\* is in the outlier store before E1 is reported resolved.
C11_TwoNetworkCalls ==
  /\ ScenarioE1 =>
       /\ RequestedIds = << 1, 2 >>
       /\ Len(pdus) = 1
       /\ pdus[1].pdu.event_id = 1
       /\ IsSome(pdus[1].json)
       /\ 2 \in DOMAIN outliers
  /\ ScenarioE1Running =>
       \A h \in DOMAIN handled :
         Resolved(h) =>
           /\ h = 2
           /\ handled[1].id = 2
           /\ 2 \in DOMAIN outliers

\* the scenario has run to its end: E1 is returned and A2 is an outlier
C11_Witness ==
  /\ ScenarioE1
  /\ Len(netlog) = 2
  /\ Len(pdus) = 1
  /\ DOMAIN outliers = { 1, 2 }


\* C12: within one call, no event id is requested from the origin more than
\* once, whether several fetched events name it in their auth_events or the
\* caller lists it more than once.
C12_FetchedAtMostOnce ==
  \A m, n \in DOMAIN netlog : m # n => netlog[m].id # netlog[n].id


\* the step reports a failure for id: a request for it failed, or the
\* admitter rejected it
FailureReported(id) ==
  \/ /\ Len(netlog') = Len(netlog) + 1
     /\ netlog'[Len(netlog')].id = id
     /\ netlog'[Len(netlog')].outcome # "ok"
  \/ /\ Len(handled') = Len(handled) + 1
     /\ handled'[Len(handled')].id = id
     /\ handled'[Len(handled')].outcome = "error"

\* the entry a failure recorded at time t leaves for id
RecordedEntry(rl, id, t) ==
  IF id \notin DOMAIN rl THEN [ time |-> t, tries |-> 1 ]
  ELSE [ time |-> t,
         tries |-> IF rl[id].tries = TriesMax THEN TriesMax ELSE rl[id].tries + 1 ]

\* C13: a step that records a failure for an id inserts (now, 1) when the id
\* has no entry, and otherwise sets the time to now and raises the count by
\* one, saturating at the maximum, leaving the other entries alone; a step
\* that reports no failure leaves the registry as it is.
C13_RecordFailure ==
  [][ /\ \A id \in Ids :
           FailureReported(id) =>
             /\ DOMAIN ratelimiter' = DOMAIN ratelimiter \cup { id }
             /\ ratelimiter'[id] = RecordedEntry(ratelimiter, id, now)
             /\ \A x \in DOMAIN ratelimiter \ { id } : ratelimiter'[x] = ratelimiter[x]
      /\ ratelimiter' # ratelimiter => \E id \in Ids : FailureReported(id)
    ]_vars

\* failures have been recorded for an id with a saturated entry and for an id
\* with no entry: the one keeps the maximum, the other has count 1
C13_Witness ==
  \E id, other \in Ids :
    /\ failures[id].count > TriesMax
    /\ ratelimiter[id] = [ time |-> failures[id].last, tries |-> TriesMax ]
    /\ failures[other].count = 1
    /\ ratelimiter[other] = [ time |-> failures[other].last, tries |-> 1 ]


\* C14: an id that has a registry entry has one in every later state, with a
\* failure count and a time that are not lower; a step that fetches the id
\* or has the admitter accept it leaves its entry exactly as it was.
C14_EntriesSticky ==
  [][ \A id \in DOMAIN ratelimiter :
        /\ id \in DOMAIN ratelimiter'
        /\ ratelimiter'[id].tries >= ratelimiter[id].tries
        /\ ratelimiter'[id].time >= ratelimiter[id].time
        /\ ~ FailureReported(id) => ratelimiter'[id] = ratelimiter[id]
    ]_vars

\* an event whose id has an old entry was fetched and accepted by the
\* admitter after the entry's window, and the entry is still what it was
C14_Witness ==
  \E h \in DOMAIN handled, n \in DOMAIN netlog :
    /\ handled[h].outcome = "ok"
    /\ netlog[n].outcome = "ok"
    /\ netlog[n].id = handled[h].id
    /\ IsSome(handled[h].entry)
    /\ handled[h].id \in DOMAIN outliers
    /\ Entry(handled[h].id) = handled[h].entry
    /\ Unwrap(handled[h].entry).tries = TriesMax


\* the tasks that hold the registry's lock
Holders == rwlock.readers \cup rwlock.writer

\* C15: a task that is suspended (awaiting the local lookup, pdu_exists, the
\* federation request or the Event Admitter) holds neither the read lock nor
\* the write lock of the registry.
C15_NoLockWhileSuspended ==
  \A t \in Tasks : tpc[t] \in Suspended => t \notin Holders

\* one task awaits its federation request after its backoff check let the id
\* through, while another holds the write lock inside back_off
C15_Witness ==
  \E t, u \in Tasks :
    /\ tpc[t] = "request"
    /\ TaskId \in DOMAIN ratelimiter
    /\ tpc[u] = "back_off_entry"
    /\ rwlock.writer = { u }


LeaveReq == Unwrap(leave_req)
LeaveResult == Unwrap(leave_result)

\* the event of the handled request names a room other than the path's
OtherRoom ==
  /\ IsSome(leave_result)
  /\ IsSome(LeaveReq.event.room_id)
  /\ Unwrap(LeaveReq.event.room_id) \in Rooms
  /\ Unwrap(LeaveReq.event.room_id) # LeaveReq.room_id

\* the handler has got as far as reading the event's room_id
LeaveCanonical ==
  /\ LeaveReq.exists
  /\ LeaveReq.origin \notin LeaveReq.denied
  /\ LeaveReq.room_version
  /\ LeaveReq.canonical

\* C18: a send_leave request whose event names a room other than the room of
\* the request path is answered with an error and its event is never handed
\* to handle_incoming_pdu nor sent on; when the handler gets as far as the
\* event's room_id, the error is the request error of the room id comparison.
C18_OtherRoomRejected ==
  OtherRoom =>
    /\ ~ LeaveResult.ok
    /\ ~ LeaveResult.admitted
    /\ ~ LeaveResult.sent
    /\ LeaveCanonical => LeaveResult.line = 83 /\ LeaveResult.line \in RequestErrors

\* a leave event that passes every other check, and that the admitter would
\* take, has been rejected because it names another room
C18_Witness ==
  /\ OtherRoom
  /\ LeaveCanonical
  /\ LeaveReq.event.content = Some("leave")
  /\ LeaveReq.event.type = Some("m.room.member")
  /\ LeaveReq.event.sender = Some(LeaveReq.origin)
  /\ LeaveReq.event.state_key = LeaveReq.event.sender
  /\ LeaveReq.denied = { }
  /\ LeaveReq.admit = "some"
  /\ LeaveResult.line = 83

\* the pdu that has been validated, and what the validation did
VerifyReq == Unwrap(verify_req)
VerifyResult == Unwrap(verify_result).result
NoFetch == Unwrap(verify_result).fn = "validate_and_add_event_id_no_fetch"

\* C19: whenever the keys the event requires are not all cached,
\* validate_and_add_event_id_no_fetch returns an error without having called
\* verify_event and without any key having been fetched.
C19_MissingKeysFailFast ==
  (IsSome(verify_result) /\ NoFetch /\ ~ (VerifyReq.required \subseteq VerifyReq.cached))
    => /\ ~ VerifyResult.ok
       /\ ~ VerifyResult.verify_event
       /\ VerifyResult.fetched = { }
       /\ VerifyReq.canonical => VerifyResult.line = 39

\* the no_fetch variant has refused a well signed pdu whose missing key a
\* fetch would have got
C19_Witness ==
  /\ IsSome(verify_result)
  /\ NoFetch
  /\ VerifyReq.canonical
  /\ VerifyReq.signed
  /\ VerifyReq.required \ VerifyReq.cached # { }
  /\ VerifyReq.required \subseteq VerifyReq.cached \cup VerifyReq.fetchable
  /\ VerifyResult.line = 39

\* C20: either function returns an error whenever verify_event fails for the
\* pdu, and what it returns otherwise is the derived event id with the
\* canonical object, to which the member event_id has been added with the
\* derived id as its value, after verify_event has succeeded.
C20_VerifiedOrError ==
  IsSome(verify_result) =>
    /\ ~ VerifyEvent(VerifyReq).ok => ~ VerifyResult.ok
    /\ VerifyResult.ok =>
         /\ VerifyReq.canonical
         /\ VerifyResult.verify_event
         /\ VerifyEvent(VerifyReq).ok
         /\ VerifyResult.event_id = DerivedEventId(VerifyReq)
         /\ DOMAIN VerifyResult.value = DOMAIN CanonicalValue(VerifyReq) \cup { "event_id" }
         /\ VerifyResult.value["event_id"] = DerivedEventId(VerifyReq)
         /\ \A x \in DOMAIN CanonicalValue(VerifyReq) \ { "event_id" } :
              VerifyResult.value[x] = CanonicalValue(VerifyReq)[x]

\* validate_and_add_event_id has fetched a key, verified the pdu and stamped
\* the derived id over another event_id the pdu carried
C20_Witness ==
  /\ IsSome(verify_result)
  /\ ~ NoFetch
  /\ VerifyResult.ok
  /\ VerifyResult.fetched # { }
  /\ IsSome(VerifyReq.embedded)
  /\ Unwrap(VerifyReq.embedded) # VerifyResult.event_id
  /\ VerifyResult.value["event_id"] = VerifyResult.event_id

\* the power-levels content that was read, its encoding, and what came of it
PlContent == Unwrap(pl_req).content
PlStrict == Unwrap(pl_req).integer_power_levels
PlResult == Unwrap(pl_result)
PlRead == IsSome(pl_req) /\ IsSome(pl_result)

\* the content {"ban": "50", "users": {"@1:x": "100"}}
ScenarioBan50 ==
  [ f \in ScalarFields \cup { "users" } |->
      IF f = "ban" THEN Some(StrRaw(<< 5, 0 >>))
      ELSE IF f = "users" THEN Some(<< << 1, StrRaw(<< 1, 0, 0 >>) >> >>)
      ELSE None ]

\* C21: under a legacy room version the content {"ban": "50", "users":
\* {"@1:x": "100"}} parses, with ban = 50 and the level 100 for @1:x; the
\* user @2:x, who is not in "users", gets users_default, which is 0
C21_LegacyScenario ==
  (PlRead /\ ~PlStrict /\ PlContent = ScenarioBan50) =>
    /\ IsSome(PlResult.power_levels)
    /\ Unwrap(PlResult.power_levels).ban = 50
    /\ DOMAIN Unwrap(PlResult.power_levels).users = { 1 }
    /\ Unwrap(PlResult.power_levels).users[1] = 100
    /\ Unwrap(PlResult.power_levels).users_default = 0
    /\ IsSome(PlResult.fields)
    /\ PlResult.power[1] = 100
    /\ PlResult.found[2] = None
    /\ PlResult.power[2] = 0

C21_Witness ==
  /\ PlRead /\ ~PlStrict /\ PlContent = ScenarioBan50
  /\ IsSome(PlResult.power_levels)
  /\ PlResult.power[1] = 100

\* the fields of the content that hold a string
StringFields ==
  { f \in ScalarFields : IsSome(PlContent[f]) /\ Unwrap(PlContent[f]).t = "str" }
StringUsers ==
  \E x \in DOMAIN UsersEntries(PlContent) : UsersEntries(PlContent)[x][2].t = "str"

\* C22: under a strict-integer room version a string in the place of an
\* integer makes the parse fail: deserialize_power_levels returns None, and
\* each narrow parser returns an error when the string is in a field it reads
C22_StrictRejectsStrings ==
  (PlRead /\ PlStrict) =>
    /\ (StringFields # { } \/ StringUsers) => PlResult.power_levels = None
    /\ ("users_default" \in StringFields \/ StringUsers) => PlResult.fields = None
    /\ "invite" \in StringFields => PlResult.invite = None
    /\ "redact" \in StringFields => PlResult.redact = None

C22_Witness ==
  /\ PlRead /\ PlStrict
  /\ StringFields = { "ban" }
  /\ Unwrap(PlContent.ban) = StrRaw(<< 5, 0 >>)
  /\ PlResult.power_levels = None

\* the level of the first entry that has the user id, looking at the entries
\* one after the other
LinearScan(users, user_id) ==
  IF \E x \in DOMAIN users : users[x][1] = user_id
  THEN Some(users[CHOOSE x \in DOMAIN users :
                    /\ users[x][1] = user_id
                    /\ \A y \in 1 .. x - 1 : users[y][1] # user_id][2])
  ELSE None

C26_AbsentFieldDefaults ==
  PlRead =>
    /\ \A f \in ScalarFields :
         (PlContent[f] = None /\ IsSome(PlResult.power_levels)) =>
           Unwrap(PlResult.power_levels)[f] =
             IF f \in { "events_default", "invite", "users_default" }
             THEN 0 ELSE DefaultPowerLevel
    /\ (PlContent.users_default = None /\ IsSome(PlResult.fields)) =>
         Unwrap(PlResult.fields).users_default = 0
    /\ (PlContent.invite = None /\ IsSome(PlResult.invite)) =>
         Unwrap(PlResult.invite).invite = 0
    /\ (PlContent.redact = None /\ IsSome(PlResult.redact)) =>
         Unwrap(PlResult.redact).redact = DefaultPowerLevel

C26_Witness ==
  /\ PlRead /\ PlStrict
  /\ \A f \in ScalarFields \ { "invite" } : PlContent[f] = None
  /\ PlContent.invite = Some(IntRaw(100))
  /\ IsSome(PlResult.power_levels)
  /\ Unwrap(PlResult.power_levels).kick = DefaultPowerLevel
  /\ Unwrap(PlResult.power_levels).events_default = 0
  /\ Unwrap(PlResult.redact).redact = DefaultPowerLevel

\* the fetch loop is at an id inside its backoff window
FetchSkips == pc = "fetch" /\ todo # << >> /\ FetchBackoff(Head(todo))
\* the validation loop is at an event inside its backoff window
ValidateSkips == pc = "admit" /\ k <= Len(order) /\ ValidateBackoff(order[k].id)

\* C30: a step taken while the fetch loop or the validation loop is at an id
\* inside its backoff window leaves the registry entry of that id as it is,
\* time and failure count; in the validation loop the step does not hand the
\* event to the admitter: nothing is persisted or returned for it, and the
\* event is recorded as skipped
C30_SkipLeavesEntry ==
  [][ /\ FetchSkips =>
           /\ Head(todo) \in DOMAIN ratelimiter'
           /\ ratelimiter'[Head(todo)] = ratelimiter[Head(todo)]
      /\ ValidateSkips =>
           /\ order[k].id \in DOMAIN ratelimiter'
           /\ ratelimiter'[order[k].id] = ratelimiter[order[k].id]
           /\ outliers' = outliers
           /\ pdus' = pdus
           /\ handled' # handled =>
                /\ Len(handled') = Len(handled) + 1
                /\ handled'[Len(handled')].outcome = "skip" ]_vars

\* an event was skipped in the validation loop, and its entry is as it was
C30_Witness ==
  \E h \in DOMAIN handled :
    /\ handled[h].outcome = "skip"
    /\ IsSome(handled[h].entry)
    /\ Entry(handled[h].id) = handled[h].entry
    /\ handled[h].id \notin DOMAIN outliers
    /\ pc = "done"

\* the login requests that found a user for the token
Redeemed(token) ==
  { t \in DOMAIN login_tasks :
      /\ login_tasks[t].token = token
      /\ IsSome(login_tasks[t].result)
      /\ Unwrap(login_tasks[t].result).ok }

\* C27: a login token is redeemed at most once: of the calls of
\* find_from_login_token with one token, one after the other or side by
\* side, at most one returns a user
C27_RedeemedAtMostOnce ==
  \A token \in LoginTokens : Cardinality(Redeemed(token)) <= 1

\* the devices whose current token is this one
DevicesOf(token) == { key \in DOMAIN current_token : current_token[key] = token }

\* C28: after any sequence of create_device, set_token and remove_device,
\* find_from_token(t) returns (user, device) exactly when t is the token the
\* last create_device or set_token gave that device and the device has not
\* been removed since; a replaced token and the token of a removed device
\* resolve to nothing
C28_TokenResolvesToItsDevice ==
  \A token \in AccessTokens :
    /\ \A key \in DevicesOf(token) : FindFromToken(token) = Some(key)
    /\ DevicesOf(token) = { } => FindFromToken(token) = None
    /\ DOMAIN current_token = userdeviceid_metadata

\* device 1 of user 1 got token 1, then token 2 in its place; device 2 of
\* that user got token 3 and was removed
C28_Witness ==
  /\ tokens_issued = 3
  /\ FindFromToken(1) = None
  /\ FindFromToken(2) = Some(<< 1, 1 >>)
  /\ FindFromToken(3) = None
  /\ userdeviceid_metadata = { << 1, 1 >> }

ProxyConfigured == Unwrap(proxy_req).config
ProxyDomain == Unwrap(Unwrap(proxy_req).domain)
ProxyUsed == Unwrap(proxy_result) # None

\* the rules of a list as written, an empty include list read as "*"
IncludeRules ==
  IF ProxyConfigured.include = << >> THEN { << "*" >> } ELSE Range(ProxyConfigured.include)
ExcludeRules == Range(ProxyConfigured.exclude)

\* a rule as written matches a domain: "*" matches every domain, "*.d" the
\* domains that end in ".d", any other rule the domain that equals it
RuleMatches(rule, domain) ==
  \/ rule = << "*" >>
  \/ /\ Len(rule) >= 2 /\ rule[1] = "*" /\ rule[2] = "."
     /\ \E x \in 1 .. Len(domain) : SubSeq(domain, x, Len(domain)) = Tail(rule)
  \/ rule = domain

\* how specific a rule is: an exact rule is more specific than a wildcard,
\* and a wildcard the more specific the longer it is
Specificity(rule) == IF rule[1] = "*" THEN Len(rule) ELSE Len(rule) + 100

\* the specificity of the most specific of the rules that match the domain
Matching(rules) == { r \in rules : RuleMatches(r, ProxyDomain) }
MostSpecific(rules) ==
  CHOOSE s \in { Specificity(r) : r \in Matching(rules) } :
    \A r \in Matching(rules) : Specificity(r) <= s

\* C29: for_url uses the proxy for a domain exactly when the domain matches
\* an include rule, an empty include list counting as "*", and either matches
\* no exclude rule or its most specific matching include rule is more
\* specific than its most specific matching exclude rule
C29_ProxyUsedExactlyWhen ==
  (IsSome(proxy_req) /\ IsSome(proxy_result) /\ IsSome(Unwrap(proxy_req).domain)) =>
    (ProxyUsed <=>
       /\ Matching(IncludeRules) # { }
       /\ \/ Matching(ExcludeRules) = { }
          \/ MostSpecific(IncludeRules) > MostSpecific(ExcludeRules))

\* a.a.b is included by "a.a.b" and by "*.b" and excluded by "*.a.b"
C29_Witness ==
  /\ IsSome(proxy_req) /\ IsSome(proxy_result)
  /\ Unwrap(proxy_req).domain = Some(<< "a", ".", "a", ".", "b" >>)
  /\ ProxyConfigured.include = << << "*", ".", "b" >>, << "a", ".", "a", ".", "b" >> >>
  /\ ProxyConfigured.exclude = << << "*", ".", "a", ".", "b" >> >>
  /\ ProxyUsed

\* C31: whatever its failure count, an id whose last recorded failure is at
\* least the maximum window ago (8 hours in the fetch loop, 24 hours in the
\* validation loop) is not skipped by the backoff check: no id stays excluded
C31_NoPermanentExclusion ==
  \A id \in DOMAIN ratelimiter :
    /\ now - ratelimiter[id].time >= FETCH_MAX_DURATION => ~ FetchBackoff(id)
    /\ now - ratelimiter[id].time >= VALIDATE_MAX_DURATION => ~ ValidateBackoff(id)

\* an id whose count is saturated was requested from the origin once its
\* window was over
C31_Witness ==
  \E n \in DOMAIN netlog :
    /\ netlog[n].id \in DOMAIN ratelimiter
    /\ ratelimiter[netlog[n].id].tries = TriesMax
    /\ now - ratelimiter[netlog[n].id].time >= VALIDATE_MAX_DURATION
    /\ ~ FetchBackoff(netlog[n].id)

\* the event of the request is a leave of a user of the origin, by that user
ValidLeave ==
  /\ LeaveReq.event.type = Some("m.room.member")
  /\ LeaveReq.event.content = Some("leave")
  /\ LeaveReq.event.sender = Some(LeaveReq.origin)
  /\ LeaveReq.event.state_key = LeaveReq.event.sender

\* C32: create_leave_event hands to handle_incoming_pdu only an event that is
\* an m.room.member state event with membership leave, sent by a user of the
\* request's origin, with that user as its state_key; for every other event
\* the request fails, and the event is neither admitted nor sent to the room
C32_OnlyValidLeavesAdmitted ==
  IsSome(leave_result) =>
    /\ LeaveResult.admitted => ValidLeave
    /\ ~ ValidLeave => ~ LeaveResult.ok /\ ~ LeaveResult.admitted /\ ~ LeaveResult.sent

\* a leave whose state_key names another user than its sender was rejected
\* at the last check before the admission
C32_Witness ==
  /\ IsSome(leave_result)
  /\ LeaveReq.event.type = Some("m.room.member")
  /\ LeaveReq.event.content = Some("leave")
  /\ LeaveReq.event.sender = Some(LeaveReq.origin)
  /\ IsSome(LeaveReq.event.state_key)
  /\ Unwrap(LeaveReq.event.state_key) \in Users \ { LeaveReq.origin }
  /\ LeaveReq.admit = "some"
  /\ LeaveResult.line = 146
  /\ ~ LeaveResult.admitted

\* the requests that are inside handle_incoming_pdu for the room
Admitting(room_id) ==
  { t \in DOMAIN leave_tasks :
      leave_tasks[t].pc = "admit" /\ leave_tasks[t].room_id = room_id }

\* C33: a send_leave request is inside handle_incoming_pdu only while it
\* holds the mutex of its room, so two requests for one room are never
\* inside it together; a request that is through with the admission, with
\* or without success, holds no mutex; and send_pdu_room runs only after an
\* admission that succeeded, when the mutex is given back
C33_AdmissionUnderMutex ==
  /\ \A room_id \in DOMAIN mutex_federation :
       /\ \A t \in Admitting(room_id) : mutex_federation[room_id] = Some(t)
       /\ Cardinality(Admitting(room_id)) <= 1
  /\ \A t \in DOMAIN leave_tasks :
       /\ leave_tasks[t].pc \in { "lock", "send", "done" } =>
            \A room_id \in DOMAIN mutex_federation : mutex_federation[room_id] # Some(t)
       /\ leave_tasks[t].pc = "send" => leave_tasks[t].admit = "some"
       /\ (leave_tasks[t].pc = "done" /\ leave_tasks[t].admit # "some") => ~ leave_tasks[t].ok

\* two requests for room 1: the one is inside handle_incoming_pdu, the other
\* waits for the mutex
C33_Witness ==
  /\ leave_tasks[1] = [ pc |-> "admit", room_id |-> 1, admit |-> "", ok |-> FALSE ]
  /\ leave_tasks[2] = [ pc |-> "lock", room_id |-> 1, admit |-> "", ok |-> FALSE ]
  /\ mutex_federation[1] = Some(1)

\* C34: whatever the origin serves (auth_events that repeat ids, refer to
\* themselves or form a cycle, and fetches that fail), a call that is in
\* its fetch loop leaves it and returns.
C34_CallReturns == (pc = "fetch") ~> (pc = "done")

\* a call has returned after it fetched two events that refer to each other
C34_Witness ==
  /\ pc = "done"
  /\ \E e \in 1 .. Len(ewa) :
       \E a, b \in 1 .. Len(ewa[e].fetched) :
         LET x == ewa[e].fetched[a]
             y == ewa[e].fetched[b]
         IN /\ x.id # y.id
            /\ x.value.calculated_event_id = x.id
            /\ y.value.calculated_event_id = y.id
            /\ IsSome(x.value.auth_events) /\ IsSome(y.value.auth_events)
            /\ y.id \in Range(Unwrap(x.value.auth_events))
            /\ x.id \in Range(Unwrap(y.value.auth_events))


\* C35: when several resolver tasks record failures of the same id, in any
\* interleaving of their statements, no recording is lost: after k
\* recordings the id's failure count is k (the saturated count from
\* saturation on).
C35_NoLostUpdate ==
  LET recorded == failures[TaskId].count
  IN IF recorded = 0 THEN TaskId \notin DOMAIN ratelimiter
     ELSE /\ TaskId \in DOMAIN ratelimiter
          /\ ratelimiter[TaskId].tries = Min(recorded, TriesMax)

\* two recordings were made while both tasks were in back_off: one task
\* holds the write lock for its second recording, the other waits for it
C35_Witness ==
  /\ failures[TaskId].count >= 2
  /\ \E t, u \in Tasks :
       /\ tpc[t] = "back_off_entry"
       /\ tpc[u] = "back_off"

\* the ids of the returned events, one after the other, can be found in
\* that order at different positions of the request
RECURSIVE InOrderOf(_, _)
InOrderOf(result, ids) ==
  IF result = << >> THEN TRUE
  ELSE IF ids = << >> THEN FALSE
  ELSE IF Head(result).pdu.event_id = Head(ids)
       THEN InOrderOf(Tail(result), Tail(ids))
       ELSE InOrderOf(result, Tail(ids))

\* C36: the value fetch_and_handle_outliers builds lists the resolved events
\* in the order of the requested ids, with at most one entry per requested
\* id, so it is never longer than the request.
C36_ResultInRequestOrder ==
  /\ InOrderOf(pdus, events)
  /\ Len(pdus) <= Len(events)

\* a call for two different ids has returned both, one of them fetched with
\* an event of its auth chain that was admitted as well
C36_Witness ==
  /\ pc = "done"
  /\ Len(events) = 2 /\ events[1] # events[2]
  /\ Len(pdus) = 2
  /\ \E q \in 1 .. Len(ewa) :
       /\ Len(ewa[q].fetched) >= 2
       /\ \A h \in 1 .. Len(handled) : handled[h].pos = q => handled[h].outcome = "ok"

\* the explicit level of a user in the users map of the full structure
ExplicitLevel(power_levels, u) ==
  IF u \in DOMAIN power_levels.users THEN Some(power_levels.users[u]) ELSE None

Notified(w) == channels[watch_tasks[w].chan].version # watch_tasks[w].seen

\* C38: in every interleaving of watch and wake calls, once wake(key) has
\* returned, every watch call that had registered on a prefix of key before
\* the wake started has been woken, and no send inside a wake has failed.
C38_NoLostWakeup ==
  /\ ~ send_failed
  /\ \A t \in WakeTasks :
       wake_tasks[t].pc = "done" => \A w \in wake_tasks[t].before : Notified(w)

\* two wakes have run side by side: one found a watcher's prefix under the
\* read lock, and the other had removed and woken it before the first took
\* the write lock
C38_Witness ==
  \E t, u \in WakeTasks :
    /\ t # u
    /\ wake_tasks[t].pc = "done" /\ wake_tasks[u].pc = "done"
    /\ wake_tasks[t].before # { }
    /\ \E p \in Range(wake_tasks[t].triggered) :
         p \notin wake_tasks[t].removed /\ p \in wake_tasks[u].removed

\* p is a prefix of key: key is p followed by some bytes
IsPrefix(p, key) == \E rest \in ByteStrings : p \o rest = key

\* C39: wake(key) triggers every registered prefix of key, from the empty
\* one up to key itself, removes the entries it triggered and sends on
\* their channels; entries on byte strings that are not a prefix of key stay
\* as they are and their channels are not sent to.
C39_WakeFrame ==
  [][ \A t \in WakeTasks :
        LET key == wake_tasks[t].key
            triggered == Range(wake_tasks[t].triggered)
            hit == triggered \cap DOMAIN watchers
        IN  /\ (wake_tasks[t].pc = "read" /\ wake_tasks'[t].pc # "read") =>
                 Range(wake_tasks'[t].triggered) =
                   { p \in DOMAIN watchers : IsPrefix(p, key) }
            /\ (wake_tasks[t].pc = "write" /\ wake_tasks'[t].pc = "done") =>
                 /\ \A p \in triggered : IsPrefix(p, key)
                 /\ DOMAIN watchers' = DOMAIN watchers \ triggered
                 /\ \A p \in DOMAIN watchers' : watchers'[p] = watchers[p]
                 /\ \A c \in DOMAIN channels :
                      channels'[c].version =
                        IF \E p \in hit : watchers[p] = c
                        THEN channels[c].version + 1
                        ELSE channels[c].version ]_vars

\* wake(key) for a key of one byte or more has removed the entry of the
\* empty prefix, and a watcher on a byte string that is not a prefix of key
\* is still registered and has not been woken
C39_Witness ==
  \E t \in WakeTasks, w \in WatchTasks :
    /\ wake_tasks[t].pc = "done"
    /\ wake_tasks[t].key # << >>
    /\ << >> \in wake_tasks[t].removed
    /\ watch_tasks[w].pc = "pending"
    /\ ~ IsPrefix(watch_tasks[w].prefix, wake_tasks[t].key)
    /\ watch_tasks[w].prefix \in DOMAIN watchers
    /\ ~ Notified(w)

============================================================================
